---- MODULE Spec2Model ----
(***************************************************************************)
(* Model of the Nosana node polling coordinator                            *)
(* (custom_components/nosana_node/coordinator.py).                         *)
(*                                                                         *)
(* One update cycle (_async_update_data) is a sequence of steps separated  *)
(* by its await points: info fetch, specs fetch, markets fetch (or cache   *)
(* use), market resolution, ledger load, jobs fetch, ledger save, return.  *)
(* The end-to-end timeout can end the cycle at every await point.          *)
(***************************************************************************)
EXTENDS Integers, Sequences, FiniteSets, TLC

(***************************************************************************)
(* JSON / Python values.  Every value is a tagged record, so that values   *)
(* of different Python types can be compared.                              *)
(***************************************************************************)
Null == [t |-> "null"]
S(s) == [t |-> "str", v |-> s]
N(n) == [t |-> "num", v |-> n]
D(f) == [t |-> "dict", v |-> f]
L(q) == [t |-> "list", v |-> q]

EmptyDict == [k \in {} |-> Null]

IsStr(x) == x.t = "str"
IsDict(x) == x.t = "dict"
IsList(x) == x.t = "list"

\* Python truth value of a JSON value.
Truthy(x) ==
    CASE x.t = "null" -> FALSE
      [] x.t = "str"  -> x.v # ""
      [] x.t = "num"  -> x.v # 0
      [] x.t = "dict" -> DOMAIN x.v # {}
      [] x.t = "list" -> Len(x.v) > 0

\* Python `a or b`.
Or(a, b) == IF Truthy(a) THEN a ELSE b

\* dict.get(k) on the content f of a dict.
Get(f, k) == IF k \in DOMAIN f THEN f[k] ELSE Null

\* d[k] = v on the content f of a dict.
Put(f, k, v) == [x \in DOMAIN f \cup {k} |-> IF x = k THEN v ELSE f[x]]

\* {**f, **g}
Merge(f, g) == [x \in DOMAIN f \cup DOMAIN g |-> IF x \in DOMAIN g THEN g[x] ELSE f[x]]

\* A dict literal whose null entries are left out (an absent key).
Prune(f) == [k \in {x \in DOMAIN f : f[x] # Null} |-> f[k]]

(***************************************************************************)
(* str.upper() on the state strings the model feeds in.                    *)
(***************************************************************************)
UpperTable ==
    [s \in {"other", "Other", "queued", "Queued", "running", "Running",
            "online", "offline", "Offline", "stopped", "Error", "error",
            "starting", "restarting"} |->
        CASE s \in {"other", "Other"}       -> "OTHER"
          [] s \in {"queued", "Queued"}     -> "QUEUED"
          [] s \in {"running", "Running"}   -> "RUNNING"
          [] s = "online"                   -> "ONLINE"
          [] s \in {"offline", "Offline"}   -> "OFFLINE"
          [] s = "stopped"                  -> "STOPPED"
          [] s \in {"Error", "error"}       -> "ERROR"
          [] s = "starting"                 -> "STARTING"
          [] s = "restarting"               -> "RESTARTING"]

Upper(s) == IF s \in DOMAIN UpperTable THEN UpperTable[s] ELSE s

(***************************************************************************)
(* Status normalization (coordinator.py 171-194).                          *)
(***************************************************************************)
RawState(info_ok, body) ==
    IF info_ok /\ IsDict(body)
    THEN Or(Or(Get(body.v, "state"), Get(body.v, "status")), Get(body.v, "nodeStatus"))
    ELSE Null

MapStateAlwaysRunning(s) == "Running"

MapState(s) ==
    IF s = "OTHER" THEN "Running"
    ELSE IF s = "QUEUED" THEN "Queued"
    ELSE IF s \in {"RUNNING", "ONLINE"} THEN "Running"
    ELSE IF s \in {"OFFLINE", "STOPPED", "ERROR"} THEN "Offline"
    ELSE "Running"

NormalizeStatusDefaultRunning(info_ok, body) ==
    IF info_ok /\ IsDict(body)
    THEN LET raw == RawState(info_ok, body)
         IN IF IsStr(raw) THEN MapState(Upper(raw.v)) ELSE "Running"
    ELSE "Running"

NormalizeStatus(info_ok, body) ==
    IF info_ok /\ IsDict(body)
    THEN LET raw == RawState(info_ok, body)
         IN IF IsStr(raw) THEN MapState(Upper(raw.v)) ELSE "Running"
    ELSE "Offline"

(***************************************************************************)
(* Program constants and the bounds of the model.                          *)
(***************************************************************************)
MarketsTtlSeconds == 300
JobsTtlSeconds == 900
\* Optional[datetime] = None for the two last-fetch stamps.
NoTime == -1

\* update_interval: the period of the polling loop, in seconds
UpdateInterval == 30

(***************************************************************************)
(* State.                                                                  *)
(***************************************************************************)
VARIABLES
    \* NosanaNodeCoordinator fields
    last_status,            \* self._last_status ("None" before the first cycle)
    markets_cache,          \* self._markets_cache (Null = None)
    markets_last_fetch,     \* self._markets_last_fetch
    jobs_last_fetch,        \* self._jobs_last_fetch
    store,                  \* persisted ledger {"jobs": ...}: <<[jid, rec]>> in insertion order
    data,                   \* DataUpdateCoordinator.data: the published snapshot
    \* environment
    clock,                  \* datetime.utcnow()
    \* the running cycle (locals of _async_update_data)
    pc,
    resp_info, info, info_fetch_ok, normalized_status, status_changed,
    resp_specs, specs,
    now, should_refetch_markets, resp_markets, markets,
    market_address, market,
    should_fetch_jobs, jobs_store, resp_jobs, changed, latest_bench, earnings,
    outcome,                \* how the cycle ended
    requests,               \* endpoints the running cycle has sent a request to
    saves,                  \* ledgers handed to Store.async_save by the running cycle
    prev_status,            \* normalized status computed by the cycle before
    jobs_attempted_at,      \* `now` of the latest completed cycle that went through the jobs refresh
    \* a ledger refresh of another cycle for the same node address that
    \* overlaps with the running one (locals of _async_update_jobs_and_earnings)
    other_pc, other_jobs_store,
    \* the queue-position helpers applied to one account (module functions)
    account_raw,            \* raw: the account data as the RPC returned it
    market_raw,             \* what _decode_account_data made of it
    node_addr_b58,          \* the address looked for
    queue_position,         \* what _get_queue_position_from_market_raw returned
    queue_pc

coordVars == <<last_status, markets_cache, markets_last_fetch, jobs_last_fetch, store, data>>
infoVars == <<resp_info, info, info_fetch_ok, normalized_status, status_changed>>
specsVars == <<resp_specs, specs>>
marketsVars == <<now, should_refetch_markets, resp_markets, markets>>
resolveVars == <<market_address, market, should_fetch_jobs>>
jobsVars == <<jobs_store, resp_jobs, changed, latest_bench, earnings>>
logVars == <<requests, saves, prev_status, jobs_attempted_at>>
otherVars == <<other_pc, other_jobs_store>>
queueVars == <<account_raw, market_raw, node_addr_b58, queue_position, queue_pc>>
vars == <<coordVars, clock, pc, infoVars, specsVars, marketsVars, resolveVars,
          jobsVars, outcome, logVars, otherVars, queueVars>>

\* A response of an endpoint: the request raised, came back with a status
\* other than 200, came back with a body json() cannot parse, or with a body.
Raise == [body |-> Null, kind |-> "raise"]
Non200 == [body |-> Null, kind |-> "non200"]
BadJson == [body |-> Null, kind |-> "badjson"]
Ok(b) == [body |-> b, kind |-> "ok"]
NoResp == [body |-> Null, kind |-> "none"]

\* How a cycle ends: with a snapshot, or with UpdateFailed(cause).
NoOutcome == [kind |-> "none", cause |-> "none"]
Snapshot == [kind |-> "snapshot", cause |-> "none"]
UpdateFailedSwallowed(cause) == [kind |-> "snapshot", cause |-> cause]
UpdateFailed(cause) == [kind |-> "UpdateFailed", cause |-> cause]

Statuses == {"Offline", "Queued", "Running"}

\* the coordinator after __init__, no cycle running
InitCoordinator ==
    /\ last_status = "None"
    /\ markets_cache = Null
    /\ markets_last_fetch = NoTime
    /\ jobs_last_fetch = NoTime
    /\ store = <<>>
    /\ data = Null
    /\ clock = 0
    /\ pc = "idle"
    /\ resp_info = NoResp
    /\ info = EmptyDict
    /\ info_fetch_ok = FALSE
    /\ normalized_status = "Offline"
    /\ status_changed = FALSE
    /\ resp_specs = NoResp
    /\ specs = Null
    /\ now = 0
    /\ should_refetch_markets = TRUE
    /\ resp_markets = NoResp
    /\ markets = L(<<>>)
    /\ market_address = Null
    /\ market = EmptyDict
    /\ should_fetch_jobs = FALSE
    /\ jobs_store = <<>>
    /\ resp_jobs = NoResp
    /\ changed = FALSE
    /\ latest_bench = Null
    /\ earnings = EmptyDict
    /\ outcome = NoOutcome
    /\ requests = {}
    /\ saves = <<>>
    /\ prev_status = "None"
    /\ jobs_attempted_at = NoTime
    /\ other_pc = "idle"
    /\ other_jobs_store = <<>>

\* the coordinator, and the queue-position helpers given no account
Init ==
    /\ InitCoordinator
    /\ account_raw = Null
    /\ market_raw = Null
    /\ node_addr_b58 = <<>>
    /\ queue_position = Null
    /\ queue_pc = "unused"

\* The locals of a cycle before it runs.
ResetLocals ==
    /\ resp_info' = NoResp
    /\ info' = EmptyDict
    /\ info_fetch_ok' = FALSE
    /\ normalized_status' = "Offline"
    /\ status_changed' = FALSE
    /\ resp_specs' = NoResp
    /\ specs' = Null
    /\ now' = 0
    /\ should_refetch_markets' = TRUE
    /\ resp_markets' = NoResp
    /\ markets' = L(<<>>)
    /\ market_address' = Null
    /\ market' = EmptyDict
    /\ should_fetch_jobs' = FALSE
    /\ jobs_store' = <<>>
    /\ resp_jobs' = NoResp
    /\ changed' = FALSE
    /\ latest_bench' = Null
    /\ earnings' = EmptyDict
    /\ requests' = {}
    /\ saves' = <<>>

\* Time passes between two cycles: `cycles` periods, while the clock stays <= max.
Tick(cycles, max) ==
    /\ pc = "idle"
    /\ clock + cycles * UpdateInterval <= max
    /\ clock' = clock + cycles * UpdateInterval
    /\ UNCHANGED <<queueVars, otherVars, coordVars, pc, infoVars, specsVars, marketsVars, resolveVars,
                   jobsVars, outcome, logVars>>

\* The runtime calls _async_update_data.
StartCycle ==
    /\ pc = "idle"
    /\ pc' = "info"
    /\ requests' = {"info"}
    /\ UNCHANGED <<queueVars, otherVars, coordVars, clock, infoVars, specsVars, marketsVars, resolveVars,
                   jobsVars, outcome, saves, prev_status, jobs_attempted_at>>

\* The runtime has taken the result; the frame of the cycle is gone.
EndCycle ==
    /\ pc = "done"
    /\ pc' = "idle"
    /\ ResetLocals
    /\ prev_status' = IF resp_info # NoResp THEN normalized_status ELSE prev_status
    /\ outcome' = NoOutcome
    /\ UNCHANGED <<queueVars, otherVars, coordVars, clock, jobs_attempted_at>>

(***************************************************************************)
(* Info fetch and status normalization (coordinator.py 148-204).          *)
(***************************************************************************)
InfoFetchOk(r) == r.kind = "ok"

InfoAfterNormalize(r) ==
    LET ok == InfoFetchOk(r)
        body == IF ok THEN r.body ELSE D(EmptyDict)
        norm == NormalizeStatus(ok, body)
        raw == RawState(ok, body)
        base == IF IsDict(body) THEN body.v ELSE EmptyDict
    IN Put(Put(Put(base, "status", S(norm)), "nodeStatus", S(norm)),
           "state", IF IsStr(raw) THEN raw ELSE S(norm))

FetchInfo(Resps) ==
    /\ pc = "info"
    /\ \E r \in Resps :
        LET ok == InfoFetchOk(r)
            body == IF ok THEN r.body ELSE D(EmptyDict)
            norm == NormalizeStatus(ok, body)
        IN /\ resp_info' = r
           /\ info_fetch_ok' = ok
           /\ normalized_status' = norm
           /\ info' = InfoAfterNormalize(r)
           /\ status_changed' = (last_status # norm)
           /\ last_status' = norm
    /\ requests' = requests \cup {"specs"}
    /\ pc' = "specs"
    /\ UNCHANGED <<queueVars, otherVars, markets_cache, markets_last_fetch, jobs_last_fetch, store, data,
                   clock, specsVars, marketsVars, resolveVars, jobsVars, outcome,
                   saves, prev_status, jobs_attempted_at>>

(***************************************************************************)
(* Specs fetch (coordinator.py 206-216), then the clock is read and the    *)
(* markets cache is aged (218-225).                                        *)
(***************************************************************************)
SpecsOf(r) == IF r.kind = "ok" THEN r.body ELSE D(EmptyDict)

ShouldRefetchMarketsLate(cache, last, t) ==
    ~ (cache # Null /\ last # NoTime /\ t - last <= MarketsTtlSeconds)

ShouldRefetchMarkets(cache, last, t) ==
    ~ (cache # Null /\ last # NoTime /\ t - last < MarketsTtlSeconds)

FetchSpecs(Resps) ==
    /\ pc = "specs"
    /\ \E r \in Resps :
        /\ resp_specs' = r
        /\ specs' = SpecsOf(r)
    /\ now' = clock
    /\ should_refetch_markets' = ShouldRefetchMarkets(markets_cache, markets_last_fetch, clock)
    /\ requests' = requests \cup
           (IF ShouldRefetchMarkets(markets_cache, markets_last_fetch, clock)
            THEN {"markets"} ELSE {})
    /\ pc' = "markets"
    /\ UNCHANGED <<queueVars, otherVars, coordVars, clock, infoVars, resp_markets, markets, resolveVars,
                   jobsVars, outcome, saves, prev_status, jobs_attempted_at>>

(***************************************************************************)
(* Markets list, cached (coordinator.py 227-242).                          *)
(***************************************************************************)
\* `self._markets_cache or []`
CacheOrEmpty(cache) == Or(cache, L(<<>>))

\* markets, the cache and its stamp after a refetch answered by r
MarketsAfterFetch(r, cache, last, t) ==
    CASE r.kind = "ok" -> [markets |-> r.body, cache |-> r.body, last |-> t]
      [] r.kind = "non200" -> [markets |-> L(<<>>), cache |-> L(<<>>), last |-> t]
      [] OTHER -> [markets |-> CacheOrEmpty(cache), cache |-> cache, last |-> last]

FetchMarkets(Resps) ==
    /\ pc = "markets"
    /\ should_refetch_markets
    /\ \E r \in Resps :
        LET a == MarketsAfterFetch(r, markets_cache, markets_last_fetch, now)
        IN /\ resp_markets' = r
           /\ markets' = a.markets
           /\ markets_cache' = a.cache
           /\ markets_last_fetch' = a.last
    /\ pc' = "resolve"
    /\ UNCHANGED <<queueVars, otherVars, last_status, jobs_last_fetch, store, data, clock, infoVars, specsVars,
                   now, should_refetch_markets, resolveVars, jobsVars, outcome, logVars>>

UseCachedMarkets ==
    /\ pc = "markets"
    /\ ~ should_refetch_markets
    /\ markets' = CacheOrEmpty(markets_cache)
    /\ pc' = "resolve"
    /\ UNCHANGED <<queueVars, otherVars, coordVars, clock, infoVars, specsVars, now, should_refetch_markets,
                   resp_markets, resolveVars, jobsVars, outcome, logVars>>

(***************************************************************************)
(* Market address and market resolution (coordinator.py 244-288).         *)
(***************************************************************************)
RECURSIVE OrChain(_)
\* Python `q[1] or q[2] or ... or q[n]`
OrChain(q) == IF Len(q) = 1 THEN q[1] ELSE Or(q[1], OrChain(Tail(q)))

MarketAddressInfoFirst(sp, inf) ==
    LET fromInfo == Or(Get(inf, "marketAddress"), Get(inf, "market_address"))
    IN IF ~ Truthy(fromInfo) /\ IsDict(sp)
       THEN Or(Get(sp.v, "marketAddress"), Get(sp.v, "market_address"))
       ELSE fromInfo

MarketAddress(sp, inf) ==
    LET fromSpecs == IF IsDict(sp)
                     THEN Or(Get(sp.v, "marketAddress"), Get(sp.v, "market_address"))
                     ELSE Null
    IN IF ~ Truthy(fromSpecs)
       THEN Or(Get(inf, "marketAddress"), Get(inf, "market_address"))
       ELSE fromSpecs

InitialMarket(addr) ==
    [address |-> addr, name |-> Null, type |-> Null,
     nos_reward_per_second |-> Null, usd_reward_per_hour |-> Null]

AddressKeys == {"address", "marketAddress", "market_address", "id"}

MatchesAddressKeyOnly(m, addr) == Get(m, "address") = addr

MatchesMarket(m, addr) == \E key \in AddressKeys : Get(m, key) = addr

ExtractMarket(mk, m) ==
    Merge(mk,
      [name |-> OrChain(<<Get(m, "name"), Get(m, "marketName"), Get(m, "title")>>),
       type |-> OrChain(<<Get(m, "type"), Get(m, "marketType"), Get(m, "category")>>),
       nos_reward_per_second |->
           OrChain(<<Get(m, "nos_reward_per_second"), Get(m, "nosRewardPerSecond"),
                     Get(m, "rewardPerSecond"), Get(m, "reward_per_second")>>),
       usd_reward_per_hour |->
           OrChain(<<Get(m, "usd_reward_per_hour"), Get(m, "usdRewardPerHour"),
                     Get(m, "rewardPerHourUsd"), Get(m, "rewardPerHour"),
                     Get(m, "reward_per_hour_usd")>>),
       slug |-> OrChain(<<Get(m, "slug"), Get(m, "marketSlug")>>)])

RECURSIVE ScanMarkets(_, _, _, _)
\* the loop `for m in markets` from index i on, with the market found so far
ScanMarkets(mk, q, addr, i) ==
    IF i > Len(q) THEN mk
    ELSE IF ~ IsDict(q[i]) THEN ScanMarkets(mk, q, addr, i + 1)
    ELSE LET mk2 == IF MatchesMarket(q[i].v, addr) THEN ExtractMarket(mk, q[i].v) ELSE mk
         IN IF Truthy(Get(mk2, "name")) THEN mk2 ELSE ScanMarkets(mk2, q, addr, i + 1)

ResolveMarket(addr, mkts) ==
    IF Truthy(addr) /\ IsList(mkts)
    THEN ScanMarkets(InitialMarket(addr), mkts.v, addr, 1)
    ELSE InitialMarket(addr)

(***************************************************************************)
(* Jobs fetch gating (coordinator.py 290-299).                             *)
(***************************************************************************)
ShouldFetchJobsTtlOnly(chg, last, t) ==
    last = NoTime \/ t - last >= JobsTtlSeconds

ShouldFetchJobsAlways(chg, last, t) == TRUE

ShouldFetchJobs(chg, last, t) ==
    chg \/ last = NoTime \/ t - last >= JobsTtlSeconds

\* The synchronous stretch between the markets step and the ledger load.
Resolve ==
    /\ pc = "resolve"
    /\ market_address' = MarketAddress(specs, info)
    /\ market' = ResolveMarket(MarketAddress(specs, info), markets)
    /\ should_fetch_jobs' = ShouldFetchJobs(status_changed, jobs_last_fetch, now)
    /\ pc' = "load"
    /\ UNCHANGED <<queueVars, otherVars, coordVars, clock, infoVars, specsVars, marketsVars, jobsVars,
                   outcome, logVars>>

(***************************************************************************)
(* Job ledger (_async_update_jobs_and_earnings, coordinator.py 332-500).   *)
(* A ledger is the dict jobs_store as the sequence of its items            *)
(* [jid, rec] in insertion order.  Amounts of money are in micro-USD.      *)
(***************************************************************************)
\* int(x or 0) for the numbers and nulls the model feeds in
IntOf(x) == IF x.t = "num" THEN x.v ELSE 0

\* str(x)
StrOf(x) ==
    CASE x.t = "null" -> "None"
      [] x.t = "str"  -> x.v
      [] x.t = "num"  -> ToString(x.v)
      [] OTHER        -> "?"

\* dict.get(k, {})
GetOrEmpty(f, k) == IF k \in DOMAIN f THEN f[k] ELSE D(EmptyDict)

\* json.loads on the benchmark payloads the model feeds in; Null: it raises
JsonLoads(raw) ==
    IF ~ IsStr(raw) THEN Null
    ELSE CASE raw.v = "bench-llama" ->
                D([model_id |-> S("llama"),
                   results |-> D([users_1 |-> D([tokens_per_second |-> D([mean |-> N(42)])])])])
           [] raw.v = "bench-nested-id" ->
                D([results |-> D([users_1 |-> D([model_id |-> S("qwen"),
                                                 tokens_per_second |-> D([mean |-> N(17)])])])])
           [] raw.v = "bench-no-mean" ->
                D([model_id |-> S("llama"), results |-> D([users_1 |-> D(EmptyDict)])])
           [] OTHER -> Null

\* The try block of _extract_llm_benchmark on one payload:
\* "found" with a benchmark, "none" (return None), "next" (go on with the loop).
ParseBench(raw) ==
    LET parsed == JsonLoads(raw)
    IN IF ~ IsDict(parsed) THEN [kind |-> "none", bench |-> Null]
       ELSE LET res == GetOrEmpty(parsed.v, "results")
            IN IF ~ IsDict(res) THEN [kind |-> "none", bench |-> Null]
               ELSE LET u1 == GetOrEmpty(res.v, "users_1")
                    IN IF ~ IsDict(u1) THEN [kind |-> "none", bench |-> Null]
                       ELSE LET model_id == Or(Get(parsed.v, "model_id"), Get(u1.v, "model_id"))
                                tps == GetOrEmpty(u1.v, "tokens_per_second")
                            IN IF ~ IsDict(tps) THEN [kind |-> "none", bench |-> Null]
                               ELSE IF Truthy(model_id) /\ Get(tps.v, "mean").t = "num"
                               THEN [kind |-> "found",
                                     bench |-> [model_id |-> model_id,
                                                tokens_per_second_mean |-> Get(tps.v, "mean")]]
                               ELSE [kind |-> "next", bench |-> Null]

RECURSIVE ScanOpStates(_, _)
\* the loop `for op in op_states` from index i on:
\* [raised, bench]; raised: results.get on a value that is no dict
ScanOpStates(ops, i) ==
    IF i > Len(ops) THEN [bench |-> Null, raised |-> FALSE]
    ELSE LET op == ops[i]
         IN IF ~ IsDict(op) THEN ScanOpStates(ops, i + 1)
            ELSE IF Get(op.v, "operationId") = S("llm-benchmark") /\ Get(op.v, "status") = S("success")
            THEN LET results == GetOrEmpty(op.v, "results")
                 IN IF ~ IsDict(results) THEN [bench |-> Null, raised |-> TRUE]
                    ELSE LET arr == Get(results.v, "results_llm_benchmark")
                         IN IF IsList(arr) /\ Truthy(arr)
                            THEN LET p == ParseBench(arr.v[1])
                                 IN IF p.kind = "next" THEN ScanOpStates(ops, i + 1)
                                    ELSE [bench |-> p.bench, raised |-> FALSE]
                            ELSE ScanOpStates(ops, i + 1)
            ELSE ScanOpStates(ops, i + 1)

ExtractLlmBenchmark(job) ==
    LET jr == Get(job, "jobResult")
    IN IF ~ IsDict(jr) THEN [bench |-> Null, raised |-> FALSE]
       ELSE LET op_states == Get(jr.v, "opStates")
            IN IF ~ IsList(op_states) THEN [bench |-> Null, raised |-> FALSE]
               ELSE ScanOpStates(op_states.v, 1)

ComputeUnguarded(job) ==
    LET start == IntOf(Get(job, "timeStart"))
        end == IntOf(Get(job, "timeEnd"))
    IN [runtime |-> end - start,
        earned |-> ((end - start) * IntOf(Get(job, "usdRewardPerHour"))) \div 3600]

\* _compute: (runtime, earned)
Compute(job) ==
    LET start == IntOf(Get(job, "timeStart"))
        end == IntOf(Get(job, "timeEnd"))
    IN IF start <= 0 \/ end <= 0 \/ end < start
       THEN [runtime |-> 0, earned |-> 0]
       ELSE [runtime |-> end - start,
             earned |-> ((end - start) * IntOf(Get(job, "usdRewardPerHour"))) \div 3600]

LedgerIndexNeverFound(js, jid) == 0

\* index of jid in the ledger, 0 when it is not there
LedgerIndex(js, jid) ==
    IF \E i \in 1..Len(js) : js[i].jid = jid
    THEN CHOOSE i \in 1..Len(js) : js[i].jid = jid
    ELSE 0

\* jobs of a response of the jobs endpoint (coordinator.py 353-364)
JobsOf(r) ==
    IF r.kind = "ok" /\ IsDict(r.body) /\ IsList(Get(r.body.v, "jobs"))
    THEN Get(r.body.v, "jobs").v
    ELSE <<>>

HasStartAlways(job) == TRUE

\* not skipped as a job with no start time (coordinator.py 415-417)
HasStart(job) == IntOf(Get(job, "timeStart")) > 0

NeedsUpdateOnFinalizeOnly(prev, prev_end, finalized, jobEnd) == finalized /\ ~ prev.finalized

\* the record prev is rewritten from the fetched job (coordinator.py 441)
NeedsUpdate(prev, prev_end, finalized, jobEnd) ==
    finalized /\ (~ prev.finalized \/ prev_end # jobEnd)

NeedsBackfillWhenFetched(prev, bench) == bench # Null

\* the benchmark of the fetched job is added to prev (coordinator.py 457)
NeedsBackfill(prev, bench) == bench # Null /\ "benchmark" \notin DOMAIN prev

\* One turn of the loop `for job in jobs` (coordinator.py 409-467) at time t.
\* st = [js, changed, latest_bench, latest_bench_time, raised]
ProcessJob(st, job, t) ==
    IF st.raised \/ job = Null THEN st
    ELSE IF ~ IsDict(job) THEN [st EXCEPT !.raised = TRUE]
    ELSE
    LET jid == StrOf(Get(job.v, "id"))
        c == Compute(job.v)
        jobEnd == IntOf(Get(job.v, "timeEnd"))
        finalized == jobEnd > 0
        ex == IF finalized THEN ExtractLlmBenchmark(job.v) ELSE [bench |-> Null, raised |-> FALSE]
        bench == ex.bench
        k == LedgerIndex(st.js, jid)
        new_record ==
            [finalized |-> finalized,
             id |-> IntOf(Get(job.v, "id")),
             timeStart |-> IntOf(Get(job.v, "timeStart")),
             timeEnd |-> jobEnd,
             usdRewardPerHour |-> IntOf(Get(job.v, "usdRewardPerHour")),
             runtime_seconds |-> c.runtime,
             earned_usd |-> c.earned,
             state |-> Get(job.v, "state"),
             last_seen |-> t]
        withBench(rec) == IF bench # Null THEN Put(rec, "benchmark", bench) ELSE rec
        prev == st.js[k].rec
        updated ==
            [prev EXCEPT !.timeEnd = jobEnd, !.runtime_seconds = c.runtime,
                         !.earned_usd = c.earned, !.finalized = TRUE,
                         !.usdRewardPerHour = IntOf(Get(job.v, "usdRewardPerHour")),
                         !.last_seen = t]
        after ==
            IF k = 0
            THEN [st EXCEPT !.js = Append(st.js, [jid |-> jid, rec |-> withBench(new_record)]),
                            !.changed = TRUE]
            ELSE IF NeedsUpdate(prev, prev.timeEnd, finalized, jobEnd)
            THEN [st EXCEPT !.js[k].rec = withBench(updated), !.changed = TRUE]
            ELSE IF NeedsBackfill(prev, bench)
            THEN [st EXCEPT !.js[k].rec = [Put(prev, "benchmark", bench) EXCEPT !.last_seen = t],
                            !.changed = TRUE]
            ELSE st
    IN IF jid = "" \/ jid = "None" THEN st
       ELSE IF ~ HasStart(job.v) THEN st
       ELSE IF ex.raised THEN [st EXCEPT !.raised = TRUE]
       ELSE IF finalized /\ bench # Null /\ jobEnd > after.latest_bench_time
       THEN [after EXCEPT !.latest_bench_time = jobEnd, !.latest_bench = bench]
       ELSE after

RECURSIVE ProcessJobs(_, _, _, _)
ProcessJobs(st, jobs, i, t) ==
    IF i > Len(jobs) THEN st
    ELSE ProcessJobs(ProcessJob(st, jobs[i], t), jobs, i + 1, t)

UpdateLedgerAlwaysChanged(js, jobs, t) ==
    [ProcessJobs([changed |-> FALSE, latest_bench |-> Null, raised |-> FALSE,
                  js |-> js, latest_bench_time |-> 0], jobs, 1, t)
        EXCEPT !.changed = TRUE]

\* the ledger update on the loaded ledger js with the fetched jobs
UpdateLedger(js, jobs, t) ==
    ProcessJobs([changed |-> FALSE, latest_bench |-> Null, raised |-> FALSE,
                 js |-> js, latest_bench_time |-> 0], jobs, 1, t)

RECURSIVE SumSeconds(_, _)
SumSeconds(js, i) ==
    IF i > Len(js) THEN 0
    ELSE (IF js[i].rec.timeEnd > 0 THEN js[i].rec.runtime_seconds ELSE 0) + SumSeconds(js, i + 1)

RECURSIVE SumUsd(_, _)
SumUsd(js, i) ==
    IF i > Len(js) THEN 0
    ELSE (IF js[i].rec.timeEnd > 0 THEN js[i].rec.earned_usd ELSE 0) + SumUsd(js, i + 1)

TotalsTrackingFinalizedOnly(js) ==
    [usd_total |-> N(SumUsd(js, 1)),
     seconds_total |-> N(SumSeconds(js, 1)),
     jobs_tracked |-> N(Cardinality({i \in 1..Len(js) : js[i].rec.timeEnd > 0}))]

\* totals of a ledger (coordinator.py 311-321 and 475-481)
Totals(js) ==
    [usd_total |-> N(SumUsd(js, 1)),
     seconds_total |-> N(SumSeconds(js, 1)),
     jobs_tracked |-> N(Len(js))]

\* latest_bench_out (coordinator.py 483-493)
LatestBenchOut(js, lb) ==
    IF lb # Null THEN D(lb)
    ELSE IF \E i \in 1..Len(js) : "benchmark" \in DOMAIN js[i].rec
    THEN LET first == CHOOSE i \in 1..Len(js) :
                         /\ "benchmark" \in DOMAIN js[i].rec
                         /\ \A j \in 1..(i - 1) : "benchmark" \notin DOMAIN js[j].rec
         IN D(js[first].rec.benchmark)
    ELSE D(EmptyDict)

\* the dict returned by _async_update_jobs_and_earnings
EarningsOfRefresh(js, lb) == Put(Totals(js), "benchmark", LatestBenchOut(js, lb))

(***************************************************************************)
(* The jobs step of a cycle (coordinator.py 301-321).                      *)
(***************************************************************************)
\* Store.async_load(): the persisted ledger, or an empty one when it raises
Loaded(ok) == IF ok THEN store ELSE <<>>

\* should_fetch_jobs: first await of _async_update_jobs_and_earnings
LoadForRefresh ==
    /\ pc = "load"
    /\ should_fetch_jobs
    /\ \E ok \in BOOLEAN : jobs_store' = Loaded(ok)
    /\ requests' = requests \cup {"jobs"}
    /\ pc' = "jobs"
    /\ UNCHANGED <<queueVars, otherVars, coordVars, clock, infoVars, specsVars, marketsVars, resolveVars,
                   resp_jobs, changed, latest_bench, earnings, outcome, saves, prev_status, jobs_attempted_at>>

\* not should_fetch_jobs: totals from the store, no jobs request
Recompute ==
    /\ pc = "load"
    /\ ~ should_fetch_jobs
    /\ \E ok \in BOOLEAN :
        /\ jobs_store' = Loaded(ok)
        /\ earnings' = Totals(Loaded(ok))
    /\ pc' = "return"
    /\ UNCHANGED <<queueVars, otherVars, coordVars, clock, infoVars, specsVars, marketsVars, resolveVars,
                   resp_jobs, changed, latest_bench, outcome, logVars>>

FetchJobsStampOnSuccess(Resps) ==
    /\ pc = "jobs"
    /\ \E r \in Resps :
        LET st == UpdateLedger(jobs_store, JobsOf(r), now)
        IN /\ resp_jobs' = r
           /\ jobs_store' = st.js
           /\ changed' = st.changed
           /\ latest_bench' = st.latest_bench
           /\ IF st.raised
              THEN \* job.get on a job that is no dict: UpdateFailed (326-330)
                   /\ pc' = "done"
                   /\ outcome' = UpdateFailed("AttributeError")
                   /\ UNCHANGED <<earnings, jobs_last_fetch>>
              ELSE IF st.changed
              THEN /\ pc' = "save"
                   /\ UNCHANGED <<earnings, jobs_last_fetch, outcome>>
              ELSE /\ pc' = "return"
                   /\ earnings' = EarningsOfRefresh(st.js, st.latest_bench)
                   /\ jobs_last_fetch' = IF r.kind = "ok" THEN now ELSE jobs_last_fetch
                   /\ UNCHANGED outcome
    /\ UNCHANGED <<queueVars, otherVars, last_status, markets_cache, markets_last_fetch, store, data, clock,
                   infoVars, specsVars, marketsVars, resolveVars, logVars>>

\* the jobs request and the loop over its jobs, up to the next await
FetchJobs(Resps) ==
    /\ pc = "jobs"
    /\ \E r \in Resps :
        LET st == UpdateLedger(jobs_store, JobsOf(r), now)
        IN /\ resp_jobs' = r
           /\ jobs_store' = st.js
           /\ changed' = st.changed
           /\ latest_bench' = st.latest_bench
           /\ IF st.raised
              THEN \* job.get on a job that is no dict: UpdateFailed (326-330)
                   /\ pc' = "done"
                   /\ outcome' = UpdateFailed("AttributeError")
                   /\ UNCHANGED <<earnings, jobs_last_fetch>>
              ELSE IF st.changed
              THEN /\ pc' = "save"
                   /\ UNCHANGED <<earnings, jobs_last_fetch, outcome>>
              ELSE /\ pc' = "return"
                   /\ earnings' = EarningsOfRefresh(st.js, st.latest_bench)
                   /\ jobs_last_fetch' = now
                   /\ UNCHANGED outcome
    /\ UNCHANGED <<queueVars, otherVars, last_status, markets_cache, markets_last_fetch, store, data, clock,
                   infoVars, specsVars, marketsVars, resolveVars, logVars>>

SaveStoreFatal ==
    /\ pc = "save"
    /\ \E ok \in BOOLEAN :
        IF ok
        THEN /\ store' = jobs_store
             /\ earnings' = EarningsOfRefresh(jobs_store, latest_bench)
             /\ jobs_last_fetch' = now
             /\ pc' = "return"
             /\ UNCHANGED outcome
        ELSE /\ pc' = "done"
             /\ outcome' = UpdateFailed("OSError")
             /\ UNCHANGED <<store, earnings, jobs_last_fetch>>
    /\ saves' = Append(saves, jobs_store)
    /\ UNCHANGED <<queueVars, otherVars, last_status, markets_cache, markets_last_fetch, data,
                   clock, infoVars, specsVars, marketsVars, resolveVars, jobs_store, resp_jobs,
                   changed, latest_bench, requests, prev_status, jobs_attempted_at>>

\* Store.async_save; an exception of it is swallowed (469-473)
SaveStore ==
    /\ pc = "save"
    /\ \E ok \in BOOLEAN : store' = IF ok THEN jobs_store ELSE store
    /\ saves' = Append(saves, jobs_store)
    /\ earnings' = EarningsOfRefresh(jobs_store, latest_bench)
    /\ jobs_last_fetch' = now
    /\ pc' = "return"
    /\ UNCHANGED <<queueVars, otherVars, last_status, markets_cache, markets_last_fetch, data, clock,
                   infoVars, specsVars, marketsVars, resolveVars, jobs_store, resp_jobs,
                   changed, latest_bench, outcome, requests, prev_status, jobs_attempted_at>>

(***************************************************************************)
(* The ledger refresh of another cycle for the same node address, running  *)
(* while this cycle runs (coordinator.py 342-473): the same code on its    *)
(* own locals and on the same store.                                       *)
(***************************************************************************)
\* store_data = await self._store.async_load(); Oks: may it succeed, fail
OtherLoad(Oks) ==
    /\ other_pc = "idle"
    /\ pc \notin {"idle", "done"}
    /\ \E ok \in Oks : other_jobs_store' = Loaded(ok)
    /\ other_pc' = "jobs"
    /\ UNCHANGED <<queueVars, coordVars, clock, pc, infoVars, specsVars, marketsVars,
                   resolveVars, jobsVars, outcome, logVars>>

\* the jobs request and the loop over its jobs
OtherFetchJobs(Resps) ==
    /\ other_pc = "jobs"
    /\ \E r \in Resps :
        LET st == UpdateLedger(other_jobs_store, JobsOf(r), clock)
        IN /\ other_jobs_store' = st.js
           /\ other_pc' = IF ~ st.raised /\ st.changed THEN "save" ELSE "done"
    /\ UNCHANGED <<queueVars, coordVars, clock, pc, infoVars, specsVars, marketsVars,
                   resolveVars, jobsVars, outcome, logVars>>

\* await self._store.async_save({"jobs": jobs_store})
OtherSave(Oks) ==
    /\ other_pc = "save"
    /\ \E ok \in Oks : store' = IF ok THEN other_jobs_store ELSE store
    /\ other_pc' = "done"
    /\ UNCHANGED <<queueVars, last_status, markets_cache, markets_last_fetch, jobs_last_fetch,
                   data, clock, pc, infoVars, specsVars, marketsVars, resolveVars, jobsVars,
                   outcome, logVars, other_jobs_store>>

(***************************************************************************)
(* End of a cycle (coordinator.py 323-330).                                *)
(***************************************************************************)
\* merged = {**info, "specs": specs or {}, "market": market, "earnings": earnings}
Merged(inf, sp, mk, ea) ==
    Merge(inf, [specs |-> Or(sp, D(EmptyDict)), market |-> D(mk), earnings |-> D(ea)])

Return ==
    /\ pc = "return"
    /\ data' = D(Merged(info, specs, market, earnings))
    /\ outcome' = Snapshot
    /\ pc' = "done"
    /\ jobs_attempted_at' = IF "jobs" \in requests THEN now ELSE jobs_attempted_at
    /\ UNCHANGED <<queueVars, otherVars, last_status, markets_cache, markets_last_fetch, jobs_last_fetch, store,
                   clock, infoVars, specsVars, marketsVars, resolveVars, jobsVars,
                   requests, saves, prev_status>>

\* the program points at which the cycle waits
Awaiting ==
    \/ pc \in {"info", "specs", "load", "jobs", "save"}
    \/ pc = "markets" /\ should_refetch_markets

\* async_timeout.timeout(15) expires while the cycle waits: UpdateFailed.
\* A save that was under way has or has not reached the store.
Timeout ==
    /\ Awaiting
    /\ pc' = "done"
    /\ outcome' = UpdateFailed("TimeoutError")
    /\ \E written \in BOOLEAN :
        store' = IF pc = "save" /\ written THEN jobs_store ELSE store
    /\ UNCHANGED <<queueVars, otherVars, last_status, markets_cache, markets_last_fetch, jobs_last_fetch, data,
                   clock, infoVars, specsVars, marketsVars, resolveVars, jobsVars, logVars>>

(***************************************************************************)
(* What the endpoints answer.                                              *)
(***************************************************************************)
AddrA == S("mktA")
AddrB == S("mktB")

InfoResps ==
    {Raise, Non200, BadJson,
     Ok(D([state |-> S("QUEUED")])),
     Ok(D([state |-> S("running")]))}

SpecsResps ==
    {Raise, Ok(D([marketAddress |-> AddrA]))}

MarketA == D([address |-> AddrA, name |-> S("GPU-A"), type |-> S("premium"),
              nos_reward_per_second |-> N(5), usd_reward_per_hour |-> N(36),
              slug |-> S("gpu-a")])

MarketsResps ==
    {Raise, Non200, Ok(L(<<MarketA>>))}

JobDone == D([id |-> N(1), timeStart |-> N(100), timeEnd |-> N(200),
              usdRewardPerHour |-> N(3600000)])

JobsResps ==
    {Raise, Ok(D([jobs |-> L(<<JobDone>>)])), Ok(D([jobs |-> L(<<S("junk")>>)]))}

(***************************************************************************)
(* The coordinator polled again and again.  The clock is looked at every   *)
(* TickCycles periods, up to MaxTime seconds.                              *)
(***************************************************************************)
TickCycles == 10
MaxTime == 330

Next ==
    \/ Tick(TickCycles, MaxTime)
    \/ StartCycle
    \/ FetchInfo(InfoResps)
    \/ FetchSpecs(SpecsResps)
    \/ FetchMarkets(MarketsResps)
    \/ UseCachedMarkets
    \/ Resolve
    \/ LoadForRefresh
    \/ Recompute
    \/ FetchJobs(JobsResps)
    \/ SaveStore
    \/ Return
    \/ Timeout
    \/ EndCycle

Spec == Init /\ [][Next]_vars

(***************************************************************************)
(* The markets cache over time: the node answers or not, its specs name    *)
(* market A, the jobs endpoint is down.                                    *)
(***************************************************************************)
CacheTickCycles == 5
CacheMaxTime == 900

NextCache ==
    \/ Tick(CacheTickCycles, CacheMaxTime)
    \/ StartCycle
    \/ FetchInfo({Non200, Ok(D([state |-> S("running")]))})
    \/ FetchSpecs({Ok(D([marketAddress |-> AddrA]))})
    \/ FetchMarkets(MarketsResps)
    \/ UseCachedMarkets
    \/ Resolve
    \/ LoadForRefresh
    \/ Recompute
    \/ FetchJobs({Raise})
    \/ Return
    \/ Timeout
    \/ EndCycle

SpecCache == Init /\ [][NextCache]_vars

(***************************************************************************)
(* The gate of the jobs refresh over time: the status of the node changes  *)
(* or not, the markets endpoint answers.                                   *)
(***************************************************************************)
GateTickCycles == 10
GateMaxTime == 1200

NextGate ==
    \/ Tick(GateTickCycles, GateMaxTime)
    \/ StartCycle
    \/ FetchInfo(InfoResps)
    \/ FetchSpecs({Ok(D([marketAddress |-> AddrA]))})
    \/ FetchMarkets({Ok(L(<<MarketA>>))})
    \/ UseCachedMarkets
    \/ Resolve
    \/ LoadForRefresh
    \/ Recompute
    \/ FetchJobs({Raise, Ok(D([jobs |-> L(<<JobDone>>)]))})
    \/ SaveStore
    \/ Return
    \/ Timeout
    \/ EndCycle

SpecGate == Init /\ [][NextGate]_vars

(***************************************************************************)
(* Status normalization on many answers of the info endpoint; the cycle    *)
(* is cut short after the info step by its timeout.                        *)
(***************************************************************************)
StateStrings ==
    {"OTHER", "other", "Other", "QUEUED", "queued", "Queued", "RUNNING", "running",
     "Running", "ONLINE", "online", "OFFLINE", "offline", "Offline", "STOPPED",
     "stopped", "ERROR", "Error", "error", "STARTING", "starting", "restarting"}

RichInfoResps ==
    {Raise, Non200, BadJson, Ok(Null), Ok(L(<<>>)), Ok(S("RUNNING"))}
    \cup {Ok(D(Prune([state |-> s, status |-> u, nodeStatus |-> w]))) :
            s \in {Null, S(""), N(7)} \cup {S(x) : x \in StateStrings},
            u \in {Null, S(""), S("QUEUED"), S("offline")},
            w \in {Null, S("stopped")}}

NextStatus ==
    \/ StartCycle
    \/ FetchInfo(RichInfoResps)
    \/ Timeout
    \/ EndCycle

SpecStatus == Init /\ [][NextStatus]_vars

(***************************************************************************)
(* Market resolution on many market lists: one cycle up to the resolved    *)
(* market.                                                                 *)
(***************************************************************************)
MaxMarkets == 2

MarketEntries ==
    {D([address |-> AddrA, name |-> S("Alpha"), type |-> S("t1"),
        nos_reward_per_second |-> N(5), usd_reward_per_hour |-> N(36), slug |-> S("alpha")]),
     D([usdRewardPerHour |-> N(48), marketAddress |-> AddrA, marketName |-> S("Beta"),
        marketType |-> S("t2"), marketSlug |-> S("beta"), nosRewardPerSecond |-> N(7)]),
     D([market_address |-> AddrA, title |-> S("Gamma"), category |-> S("t3"),
        rewardPerSecond |-> N(9), rewardPerHourUsd |-> N(60)]),
     D([name |-> S("Delta"), id |-> AddrA, reward_per_second |-> N(11),
        rewardPerHour |-> N(72)]),
     D([address |-> AddrA, type |-> S("t5"), slug |-> S("eps")]),
     D([address |-> AddrA, name |-> S(""), nos_reward_per_second |-> N(0),
        title |-> S("Eta"), reward_per_hour_usd |-> N(84)]),
     D([address |-> AddrB, name |-> S("Other"), slug |-> S("other")]),
     S("junk")}

MarketLists ==
    UNION {[1..n -> MarketEntries] : n \in 0..MaxMarkets}

NextMarket ==
    \/ StartCycle
    \/ FetchInfo({Ok(D([state |-> S("running")]))})
    \/ FetchSpecs({Ok(D(EmptyDict)), Ok(D([marketAddress |-> AddrA]))})
    \/ FetchMarkets({Ok(L(q)) : q \in MarketLists})
    \/ Resolve

SpecMarket == Init /\ [][NextMarket]_vars

(***************************************************************************)
(* The ledger over a few cycles: the node changes its status or not (a     *)
(* change forces the refresh), the jobs endpoint reports jobs that run,    *)
(* end, get their end time corrected, or are malformed; loading and saving *)
(* the store may fail.  The specs and markets endpoints are down.          *)
(***************************************************************************)
LedgerTickCycles == 1
LedgerMaxTime == 30

JobRunning == D([id |-> N(1), timeStart |-> N(100), usdRewardPerHour |-> N(3600000)])
JobEndCorrected == D([id |-> N(1), timeStart |-> N(100), timeEnd |-> N(300),
                      usdRewardPerHour |-> N(3600000)])
JobEndBeforeStart == D([id |-> N(2), timeStart |-> N(200), timeEnd |-> N(100),
                        usdRewardPerHour |-> N(7200000)])
JobNoStart == D([id |-> N(3), timeEnd |-> N(50), usdRewardPerHour |-> N(7200000)])
JobBench ==
    D([id |-> N(2), timeStart |-> N(100), timeEnd |-> N(150),
       usdRewardPerHour |-> N(7200000),
       jobResult |-> D([opStates |-> L(<<
           D([results |-> D([results_llm_benchmark |-> L(<<S("bench-llama")>>)]),
              status |-> S("success"), operationId |-> S("llm-benchmark")])>>)])])

LedgerJobLists ==
    {<<JobRunning>>, <<JobDone>>, <<JobEndCorrected>>, <<JobDone, JobEndBeforeStart>>,
     <<JobBench>>, <<JobNoStart>>, <<JobDone, JobEndCorrected>>, <<JobDone, S("junk")>>}

LedgerJobsResps == {Raise} \cup {Ok(D([jobs |-> L(q)])) : q \in LedgerJobLists}

NextLedger ==
    \/ Tick(LedgerTickCycles, LedgerMaxTime)
    \/ StartCycle
    \/ FetchInfo({Ok(D([state |-> S("QUEUED")])), Ok(D([state |-> S("running")]))})
    \/ FetchSpecs({Raise})
    \/ FetchMarkets({Raise})
    \/ Resolve
    \/ LoadForRefresh
    \/ Recompute
    \/ FetchJobs(LedgerJobsResps)
    \/ SaveStore
    \/ Return
    \/ Timeout
    \/ EndCycle

SpecLedger == Init /\ [][NextLedger]_vars

(***************************************************************************)
(* Two overlapping cycles for one node address: the first cycle after      *)
(* start, and the ledger refresh of a second one that begins while the     *)
(* first runs.  The store can be read and written.                         *)
(***************************************************************************)
OverlapJobsResps ==
    {Ok(D([jobs |-> L(<<JobDone>>)])), Ok(D([jobs |-> L(<<JobDone, JobBench>>)])),
     Ok(D([jobs |-> L(<<JobBench>>)]))}

NextOverlap ==
    \/ StartCycle
    \/ FetchInfo({Ok(D([state |-> S("running")]))})
    \/ FetchSpecs({Raise})
    \/ FetchMarkets({Raise})
    \/ Resolve
    \/ LoadForRefresh
    \/ FetchJobs(OverlapJobsResps)
    \/ SaveStore
    \/ Return
    \/ OtherLoad({TRUE})
    \/ OtherFetchJobs(OverlapJobsResps)
    \/ OtherSave({TRUE})

SpecOverlap == Init /\ [][NextOverlap]_vars

(***************************************************************************)
(* Properties.                                                             *)
(***************************************************************************)
FailKinds == {"raise", "non200", "badjson"}

\* The cycle has produced its snapshot.
Returned == pc = "done" /\ outcome.kind = "snapshot"

\* The upstream vocabulary of the status table, in the spellings fed in.
RunningNames == {"OTHER", "other", "Other", "RUNNING", "running", "Running", "ONLINE", "online"}
QueuedNames == {"QUEUED", "queued", "Queued"}
OfflineNames == {"OFFLINE", "offline", "Offline", "STOPPED", "stopped", "ERROR", "Error", "error"}

\* The state string an info body reports: the first of state, status and
\* nodeStatus that is set.
UpstreamState(b) ==
    IF Truthy(Get(b, "state")) THEN Get(b, "state")
    ELSE IF Truthy(Get(b, "status")) THEN Get(b, "status")
    ELSE Get(b, "nodeStatus")

\* C1: the normalized status follows the table: after an answered info
\* fetch a state string of OTHER, RUNNING or ONLINE (in any case) gives
\* Running, QUEUED gives Queued, OFFLINE, STOPPED or ERROR gives Offline,
\* any other non-empty string gives Running; a failed info fetch (raised,
\* non-200, unparsable) gives Offline.
C1_StatusTable ==
    resp_info # NoResp =>
        /\ resp_info.kind \in FailKinds => normalized_status = "Offline"
        /\ (resp_info.kind = "ok" /\ IsDict(resp_info.body)) =>
             LET s == UpstreamState(resp_info.body.v)
             IN (IsStr(s) /\ s.v # "") =>
                  normalized_status =
                     IF s.v \in QueuedNames THEN "Queued"
                     ELSE IF s.v \in OfflineNames THEN "Offline"
                     ELSE "Running"

C1_Witness ==
    /\ pc = "specs"
    /\ resp_info.kind = "ok"
    /\ IsDict(resp_info.body)
    /\ Get(resp_info.body.v, "state") = S("queued")
    /\ normalized_status = "Queued"

\* C2: a failed info fetch (raised, non-200, unparsable body) does not end
\* the cycle: the cycle goes on to the specs, markets and jobs steps with
\* the status Offline, and the snapshot it returns has the status Offline,
\* the specs the specs endpoint gave, the market resolved from the market
\* list and the earnings of the ledger.
C2_InfoFailureDegrades ==
    resp_info.kind \in FailKinds =>
        /\ normalized_status = "Offline"
        /\ "specs" \in requests
        /\ pc \in {"resolve", "load", "jobs", "save", "return"} \/ Returned =>
             "markets" \in requests \/ markets = CacheOrEmpty(markets_cache)
        /\ pc = "return" \/ Returned =>
             "jobs" \in requests \/ earnings = Totals(jobs_store)
        /\ Returned =>
             /\ Get(data.v, "status") = S("Offline")
             /\ data.v.specs = IF resp_specs.kind = "ok" THEN resp_specs.body ELSE D(EmptyDict)
             /\ data.v.market.v.address =
                  IF resp_specs.kind = "ok" THEN Get(resp_specs.body.v, "marketAddress") ELSE Null
             /\ (resp_specs.kind = "ok" /\ resp_markets.kind = "ok") =>
                  data.v.market.v.name = S("GPU-A")
             /\ data.v.earnings.v.jobs_tracked = N(Len(jobs_store))
             /\ data.v.earnings.v.seconds_total = N(SumSeconds(jobs_store, 1))

C2_Witness ==
    /\ Returned
    /\ resp_info.kind = "raise"
    /\ resp_specs.kind = "ok"
    /\ data.v.market.v.name = S("GPU-A")
    /\ "jobs" \in requests
    /\ data.v.earnings.v.seconds_total = N(100)

\* C3: every snapshot a cycle returns is structurally complete: it has the
\* keys status, state, specs, market and earnings; market has address, name,
\* type, slug and both reward fields; earnings has the totals, the count of
\* tracked jobs and the benchmark field.
C3_SnapshotComplete ==
    Returned =>
        /\ {"status", "state", "specs", "market", "earnings"} \subseteq DOMAIN data.v
        /\ {"address", "name", "type", "slug", "nos_reward_per_second",
            "usd_reward_per_hour"} \subseteq DOMAIN data.v.market.v
        /\ {"usd_total", "seconds_total", "jobs_tracked", "benchmark"}
               \subseteq DOMAIN data.v.earnings.v

\* C4: a cycle whose normalized status differs from the one of the cycle
\* before sends its request to the jobs endpoint in that same cycle, also
\* when the last refresh is less than 900 seconds old.
C4_TransitionForcesRefresh ==
    ((pc = "return" \/ Returned) /\ prev_status # normalized_status) =>
        "jobs" \in requests

C4_Witness ==
    /\ pc = "jobs"
    /\ "jobs" \in requests
    /\ prev_status \in Statuses
    /\ prev_status # normalized_status
    /\ jobs_last_fetch # NoTime
    /\ now - jobs_last_fetch < JobsTtlSeconds

\* C5: a cycle without a status transition and with less than 900 seconds
\* since the last jobs refresh sends no request to the jobs endpoint and
\* does not write the ledger; its totals are those of the persisted ledger
\* (of an empty one when the ledger cannot be read).
C5_NoRefreshWithinTtl ==
    [][(/\ pc = "load"
        /\ prev_status = normalized_status
        /\ jobs_last_fetch # NoTime
        /\ now - jobs_last_fetch < JobsTtlSeconds)
       => /\ "jobs" \notin requests'
          /\ store' = store
          /\ saves' = <<>>
          /\ pc' \in {"return", "done"}
          /\ pc' = "return" => earnings' \in {Totals(store), Totals(<<>>)}]_vars

C5_Witness ==
    /\ pc = "return"
    /\ "jobs" \notin requests
    /\ saves = <<>>
    /\ prev_status = normalized_status
    /\ jobs_last_fetch # NoTime
    /\ now - jobs_last_fetch > 0
    /\ now - jobs_last_fetch < JobsTtlSeconds
    /\ Len(store) = 1
    /\ earnings = Totals(store)
    /\ earnings.seconds_total = N(100)

\* C6: a cycle sends a request to the markets endpoint exactly when no
\* market list is cached or the cached one is 300 seconds old or older; a
\* cycle that finds a cached list younger than 300 seconds sends none and
\* uses the cached list.
C6_MarketsFetchedOnlyWhenStale ==
    /\ pc = "markets" =>
         ("markets" \in requests <=>
            (markets_cache = Null \/ now - markets_last_fetch >= MarketsTtlSeconds))
    /\ (/\ pc \in {"resolve", "load", "jobs", "save", "return", "done"}
        /\ resp_specs # NoResp
        /\ "markets" \notin requests)
       => markets = markets_cache

C6_Witness ==
    /\ pc = "resolve"
    /\ "markets" \notin requests
    /\ markets_cache = L(<<MarketA>>)
    /\ markets = markets_cache
    /\ now - markets_last_fetch > 0
    /\ now - markets_last_fetch < MarketsTtlSeconds

\* C7: a markets refetch that fails, by a raised error or by a non-200
\* response, leaves a cached market list as it was.
C7_FailedRefetchKeepsCache ==
    [][(/\ pc = "markets"
        /\ pc' = "resolve"
        /\ resp_markets'.kind \in {"raise", "non200"}
        /\ markets_cache # Null)
       => markets_cache' = markets_cache]_vars

\* C8: once a snapshot has published a market name, a later cycle with the
\* same market address whose markets fetch fails publishes the same name.
C8_FailedFetchKeepsName ==
    [][(/\ pc = "return"
        /\ pc' = "done"
        /\ outcome'.kind = "snapshot"
        /\ data # Null
        /\ Truthy(data.v.market.v.name)
        /\ market_address = data.v.market.v.address
        /\ resp_markets.kind \in FailKinds)
       => data'.v.market.v.name = data.v.market.v.name]_vars

\* The candidate keys of each display field of a market, in their order.
DisplayKeys ==
    [name |-> <<"name", "marketName", "title">>,
     type |-> <<"type", "marketType", "category">>,
     nos_reward_per_second |-> <<"nos_reward_per_second", "nosRewardPerSecond",
                                 "rewardPerSecond", "reward_per_second">>,
     usd_reward_per_hour |-> <<"usd_reward_per_hour", "usdRewardPerHour",
                               "rewardPerHourUsd", "rewardPerHour", "reward_per_hour_usd">>,
     slug |-> <<"slug", "marketSlug">>]

\* v is what entry e gives under the candidate keys: the value of the first
\* key that is set, nothing when none is.
FieldCarried(v, e, keys) ==
    IF \E j \in 1..Len(keys) : Truthy(Get(e, keys[j]))
    THEN LET j == CHOOSE j \in 1..Len(keys) :
                     /\ Truthy(Get(e, keys[j]))
                     /\ \A h \in 1..(j - 1) : ~ Truthy(Get(e, keys[h]))
         IN v = Get(e, keys[j])
    ELSE ~ Truthy(v)

Carries(mk, e) == \A f \in DOMAIN DisplayKeys : FieldCarried(Get(mk, f), e, DisplayKeys[f])

\* Entry x of a market list is a record for the address.
IsMatch(x, addr) ==
    /\ IsDict(x)
    /\ \E k \in {"address", "marketAddress", "market_address", "id"} :
          k \in DOMAIN x.v /\ x.v[k] = addr

Matching == {i \in 1..Len(markets.v) : IsMatch(markets.v[i], market_address)}

\* C9: when the market list has an entry whose address, marketAddress,
\* market_address or id is the queried address, the resolved market has the
\* name, type, slug and rewards of such an entry; when it has none, the
\* resolved market is null in all these fields; its address is the queried
\* address in both cases.
C9_MarketResolution ==
    pc = "load" =>
        /\ market.address = market_address
        /\ IF Truthy(market_address) /\ Matching # {}
           THEN \E i \in Matching : Carries(market, markets.v[i].v)
           ELSE \A f \in DOMAIN DisplayKeys : Get(market, f) = Null

C9_Witness ==
    /\ pc = "load"
    /\ market_address = AddrA
    /\ Cardinality(Matching) = 1
    /\ market.name = S("Beta")
    /\ market.slug = S("beta")
    /\ market.usd_reward_per_hour = N(48)

\* C10: when several records of the market list match the queried address,
\* the display fields of the resolved market are those of the first of them.
C10_FirstMatchWins ==
    (pc = "load" /\ Truthy(market_address) /\ Cardinality(Matching) >= 2) =>
        LET first == CHOOSE i \in Matching : \A j \in Matching : i <= j
        IN Carries(market, markets.v[first].v)

\* The ledger after the update with the jobs of response r at time t.
Ingest(js, r, t) == UpdateLedger(js, JobsOf(r), t)

\* A ledger without the last_seen stamps of its records.
WithoutLastSeen(js) ==
    [i \in 1..Len(js) |-> [js[i] EXCEPT !.rec = [js[i].rec EXCEPT !.last_seen = 0]]]

\* No job id comes twice in the jobs of response r.
DistinctIds(r) ==
    \A i, j \in 1..Len(JobsOf(r)) :
        (i # j /\ IsDict(JobsOf(r)[i]) /\ IsDict(JobsOf(r)[j]))
            => Get(JobsOf(r)[i].v, "id") # Get(JobsOf(r)[j].v, "id")

\* C11 as stated: the ledger update run a second time, one period later, on
\* the identical job list gives the totals of the first run and leaves every
\* record of the ledger as the first run left it.
C11_UpdateIdempotent ==
    pc = "jobs" =>
        \A r \in LedgerJobsResps :
            LET first == Ingest(jobs_store, r, now)
                second == Ingest(first.js, r, now + UpdateInterval)
            IN ~ first.raised =>
                 /\ Totals(second.js) = Totals(first.js)
                 /\ second.js = first.js

\* C11, amended: the second run gives the totals of the first run and the
\* same records up to their last_seen stamps; when no job id comes twice in
\* the list it changes nothing at all and asks for no write.
C11_UpdateIdempotentUpToLastSeen ==
    pc = "jobs" =>
        \A r \in LedgerJobsResps :
            LET first == Ingest(jobs_store, r, now)
                second == Ingest(first.js, r, now + UpdateInterval)
            IN ~ first.raised =>
                 /\ Totals(second.js) = Totals(first.js)
                 /\ WithoutLastSeen(second.js) = WithoutLastSeen(first.js)
                 /\ DistinctIds(r) => (second.js = first.js /\ ~ second.changed)

\* A refresh has taken in, one period later, the list the persisted ledger
\* was built from: nothing changed and the totals are those of the job.
C11_Witness ==
    /\ pc = "return"
    /\ resp_jobs = Ok(D([jobs |-> L(<<JobDone>>)]))
    /\ now = UpdateInterval
    /\ ~ changed
    /\ Len(store) = 1
    /\ store[1].rec.last_seen = 0
    /\ jobs_store = store
    /\ earnings.seconds_total = N(100)
    /\ earnings.usd_total = N(100000)

\* The records of a ledger that are marked finalized.
FinalizedRecords(js) == {i \in 1..Len(js) : js[i].rec.finalized}

RECURSIVE SumOver(_, _, _)
\* The sum of field f over the records of js with index in I.
SumOver(js, I, f) ==
    IF I = {} THEN 0
    ELSE LET i == CHOOSE i \in I : TRUE
         IN js[i].rec[f] + SumOver(js, I \ {i}, f)

\* C12: the totals a cycle publishes are the sums of runtime_seconds and
\* earned_usd over the records of its ledger marked finalized, every job id
\* having one record, and jobs_tracked is the number of records; in cycles
\* that refresh the ledger and in cycles that recompute from the store.
C12_TotalsAreSumOfFinalized ==
    (pc = "return" \/ Returned) =>
        /\ \A i, j \in 1..Len(jobs_store) : jobs_store[i].jid = jobs_store[j].jid => i = j
        /\ earnings.seconds_total =
              N(SumOver(jobs_store, FinalizedRecords(jobs_store), "runtime_seconds"))
        /\ earnings.usd_total =
              N(SumOver(jobs_store, FinalizedRecords(jobs_store), "earned_usd"))
        /\ earnings.jobs_tracked = N(Len(jobs_store))
        /\ Returned =>
             /\ data.v.earnings.v.seconds_total = earnings.seconds_total
             /\ data.v.earnings.v.usd_total = earnings.usd_total
             /\ data.v.earnings.v.jobs_tracked = earnings.jobs_tracked

\* A cycle that only recomputes publishes the totals of two records, one of
\* a finalized job and one of a job that still runs.
C12_Witness ==
    /\ Returned
    /\ "jobs" \notin requests
    /\ Len(jobs_store) = 2
    /\ Cardinality(FinalizedRecords(jobs_store)) = 1
    /\ data.v.earnings.v.seconds_total = N(50)
    /\ data.v.earnings.v.usd_total = N(100000)
    /\ data.v.earnings.v.jobs_tracked = N(2)

\* C13: every record of the ledger, in the cycle and in the store, that is
\* marked finalized has an end time that is set and not before its start
\* time.
C13_FinalizedHasConsistentEnd ==
    \A js \in {jobs_store, store} :
        \A i \in 1..Len(js) :
            js[i].rec.finalized =>
                /\ js[i].rec.timeEnd > 0
                /\ js[i].rec.timeEnd >= js[i].rec.timeStart

\* C14: what the finalized jobs contribute to the published totals does not
\* decrease from one snapshot to the next: a cycle in which the jobs
\* endpoint reports no job at all, so no other end time of any job,
\* publishes runtime and earnings totals not below those of the snapshot
\* before.
C14_ContributionNeverDecreases ==
    [][(/\ pc = "return"
        /\ pc' = "done"
        /\ outcome'.kind = "snapshot"
        /\ data # Null
        /\ JobsOf(resp_jobs) = <<>>)
       => /\ data'.v.earnings.v.seconds_total.v >= data.v.earnings.v.seconds_total.v
          /\ data'.v.earnings.v.usd_total.v >= data.v.earnings.v.usd_total.v]_vars

\* The jobs of the response the cycle got that are JSON objects.
FetchedJobs == {i \in 1..Len(JobsOf(resp_jobs)) : IsDict(JobsOf(resp_jobs)[i])}

\* C15: for every fetched job the pair (runtime, earned) is (0, 0) unless
\* timeEnd > 0, timeStart > 0 and timeEnd >= timeStart, and then runtime is
\* timeEnd - timeStart and earned is runtime / 3600 times the hourly rate
\* (money in micro-USD); a record that holds the job's times and rate holds
\* this pair; start 100, end 200 and rate 3.6 give 100 and 0.1.
C15_RuntimeAndEarned ==
    pc \in {"save", "return", "done"} =>
        \A i \in FetchedJobs :
            LET job == JobsOf(resp_jobs)[i].v
                timeStart == IF "timeStart" \in DOMAIN job THEN job.timeStart.v ELSE 0
                timeEnd == IF "timeEnd" \in DOMAIN job THEN job.timeEnd.v ELSE 0
                rate == IF "usdRewardPerHour" \in DOMAIN job THEN job.usdRewardPerHour.v ELSE 0
                c == Compute(job)
            IN /\ IF timeEnd > 0 /\ timeStart > 0 /\ timeEnd >= timeStart
                  THEN /\ c.runtime = timeEnd - timeStart
                       /\ c.earned * 3600 = c.runtime * rate
                  ELSE c.runtime = 0 /\ c.earned = 0
               /\ (timeStart = 100 /\ timeEnd = 200 /\ rate = 3600000)
                     => (c.runtime = 100 /\ c.earned = 100000)
               /\ \A k \in 1..Len(jobs_store) :
                     (/\ jobs_store[k].rec.id = job.id.v
                      /\ jobs_store[k].rec.timeStart = timeStart
                      /\ jobs_store[k].rec.timeEnd = timeEnd
                      /\ jobs_store[k].rec.usdRewardPerHour = rate)
                     => /\ jobs_store[k].rec.runtime_seconds = c.runtime
                        /\ jobs_store[k].rec.earned_usd = c.earned

\* The refresh has computed runtime 100 and earnings 0.1 for the job that
\* ran from 100 to 200 at 3.6 per hour, and 0 and 0 for the job whose end
\* precedes its start.
C15_Witness ==
    /\ pc = "save"
    /\ resp_jobs = Ok(D([jobs |-> L(<<JobDone, JobEndBeforeStart>>)]))
    /\ Len(jobs_store) = 2
    /\ jobs_store[1].rec.runtime_seconds = 100
    /\ jobs_store[1].rec.earned_usd = 100000
    /\ jobs_store[2].rec.timeEnd = 100
    /\ jobs_store[2].rec.runtime_seconds = 0
    /\ jobs_store[2].rec.earned_usd = 0

\* The job ids of a ledger.
JobIds(js) == {js[i].jid : i \in 1..Len(js)}

\* C16: a job id that is in the persisted ledger stays in it, whatever the
\* step, also in cycles in which loading the ledger or fetching the jobs
\* fails.
C16_PersistedLedgerKeepsIds ==
    [][JobIds(store) \subseteq JobIds(store')]_vars

\* The ledger js after the first n of the jobs went through the loop.
LedgerAfter(js, jobs, n, t) ==
    ProcessJobs([changed |-> FALSE, latest_bench |-> Null, raised |-> FALSE,
                 js |-> js, latest_bench_time |-> 0], SubSeq(jobs, 1, n), 1, t).js

\* One of the jobs added a record to the ledger js or changed one.
RecordTouched(js, jobs, t) ==
    \E n \in 1..Len(jobs) : LedgerAfter(js, jobs, n, t) # LedgerAfter(js, jobs, n - 1, t)

\* C17: the persisted ledger is written only in the save step of a refresh,
\* and a refresh goes to its save step exactly when one of the fetched jobs
\* added or changed a record: a refresh that adds and changes nothing, and a
\* cycle that only recomputes, write nothing.
C17_WriteOnlyWhenChanged ==
    [][/\ (store' # store \/ Len(saves') > Len(saves)) => pc = "save"
       /\ (pc = "jobs" /\ pc' \in {"save", "return"}) =>
             (pc' = "save" <=> RecordTouched(jobs_store, JobsOf(resp_jobs'), now))]_vars

\* A refresh took in a list that changed nothing: it went on without a write.
C17_Witness ==
    /\ pc = "return"
    /\ "jobs" \in requests
    /\ resp_jobs = Ok(D([jobs |-> L(<<JobDone, JobEndBeforeStart>>)]))
    /\ Len(jobs_store) = 2
    /\ saves = <<>>
    /\ store = jobs_store

\* The snapshot d has every section, each as the finished cycle computed it.
WholeSnapshot(d) ==
    /\ resp_info # NoResp /\ resp_specs # NoResp
    /\ {"status", "state", "nodeStatus", "specs", "market", "earnings"} \subseteq DOMAIN d.v
    /\ d.v.status = S(normalized_status)
    /\ d.v.specs = Or(specs, D(EmptyDict))
    /\ d.v.market = D(market)
    /\ d.v.market.v.address = market_address
    /\ d.v.earnings = D(earnings)
    /\ {"usd_total", "seconds_total", "jobs_tracked"} \subseteq DOMAIN d.v.earnings.v

\* C18: a cycle ends in exactly one of two ways.  From its return statement
\* it ends with a snapshot that has every section; from every other point
\* (the timeout expired, an unexpected exception) it ends with UpdateFailed
\* carrying the cause, and the published snapshot stays as it was: nothing
\* partial is returned.  No outcome exists before the cycle has ended.
C18_SnapshotOrUpdateFailed ==
    [][/\ pc' # "done" => outcome'.kind = "none"
       /\ (pc # "done" /\ pc' = "done") =>
            IF pc = "return"
            THEN /\ outcome'.kind = "snapshot"
                 /\ WholeSnapshot(data')
            ELSE /\ outcome'.kind = "UpdateFailed"
                 /\ outcome'.cause \in {"TimeoutError", "AttributeError"}
                 /\ data' = data]_vars

\* A cycle was ended by its timeout while it waited for the markets, after
\* an earlier cycle had published a snapshot; that snapshot is still there.
C18_Witness ==
    /\ pc = "done"
    /\ outcome.kind = "UpdateFailed"
    /\ outcome.cause = "TimeoutError"
    /\ resp_specs # NoResp
    /\ resp_markets = NoResp
    /\ data # Null
    /\ data.v.status = S("Queued")
    /\ normalized_status = "Running"

\* C19: a cycle that its timeout does not end returns a snapshot, whatever
\* the specs, markets and jobs endpoints answer: a failed fetch or a
\* malformed body of one of them degrades its section only (empty specs, a
\* market from the cached list or unresolved, earnings from the ledger).
C19_SourceFailureDegradesSection ==
    (pc = "done" /\ outcome.cause # "TimeoutError") =>
        /\ outcome.kind = "snapshot"
        /\ resp_specs.kind \in FailKinds => data.v.specs = D(EmptyDict)
        /\ resp_markets.kind \in FailKinds => markets \in {L(<<>>), markets_cache}
        /\ JobsOf(resp_jobs) = <<>> => data.v.earnings.v.seconds_total = N(SumSeconds(jobs_store, 1))

\* C20: when two cycles for one node address overlap, no update is lost: the
\* write of the overlapping refresh, which has loaded the ledger, takes no
\* job id out of the persisted ledger, so that what either cycle persisted
\* is there once both are through.
C20_NoLostUpdate ==
    [][(other_pc = "save" /\ other_pc' = "done")
         => JobIds(store) \subseteq JobIds(store')]_vars

(***************************************************************************)
(* Cycles that end in failure.                                             *)
(***************************************************************************)
\* C21: a cycle that ends in failure (abandoned at the timeout or ended by
\* an exception) has changed no state: the remembered last status is the
\* one the cycle before left, the markets cache and its stamp were not
\* assigned (no markets request of the cycle was answered with a status,
\* coordinator.py 236-237), and the step that ends the cycle leaves the
\* persisted ledger as it was (no earlier step of such a cycle writes it).
C21_FailedCycleContributesNothing ==
    [][(pc' = "done" /\ outcome'.kind = "UpdateFailed") =>
        /\ last_status' = prev_status'
        /\ resp_markets'.kind \notin {"ok", "non200"}
        /\ store' = store]_vars

\* the normalized status of the latest published snapshot ("None": none yet)
PublishedStatus == IF data = Null THEN "None" ELSE data.v["status"].v

(***************************************************************************)
(* The queue-position helpers (coordinator.py 26-105): module functions    *)
(* on the raw account data of a market.  Bytes are sequences of numbers    *)
(* 0..255, strings are sequences of characters.                            *)
(***************************************************************************)
\* a bytes value; an exception leaving the function
B(q) == [t |-> "bytes", v |-> q]
Raised == [t |-> "raised"]

\* _B58_ALPHABET
B58Alphabet ==
    <<"1", "2", "3", "4", "5", "6", "7", "8", "9", "A", "B", "C", "D", "E", "F", "G",
      "H", "J", "K", "L", "M", "N", "P", "Q", "R", "S", "T", "U", "V", "W", "X", "Y",
      "Z", "a", "b", "c", "d", "e", "f", "g", "h", "i", "j", "k", "m", "n", "o", "p",
      "q", "r", "s", "t", "u", "v", "w", "x", "y", "z">>

\* divmod(num, 58) on the big-endian digits of num, from digit i on
RECURSIVE DivMod58(_, _, _, _)
DivMod58(digits, i, carry, acc) ==
    IF i > Len(digits) THEN [quot |-> acc, rem |-> carry]
    ELSE LET cur == carry * 256 + digits[i]
         IN DivMod58(digits, i + 1, cur % 58, Append(acc, cur \div 58))

\* int.from_bytes(data, "big") == 0
IsZeroNum(bs) == \A i \in 1..Len(bs) : bs[i] = 0

\* len(data) - len(data.lstrip(b"\0"))
NPad(bs) ==
    IF IsZeroNum(bs) THEN Len(bs)
    ELSE (CHOOSE i \in 1..Len(bs) : bs[i] # 0 /\ \A j \in 1..(i - 1) : bs[j] = 0) - 1

RECURSIVE B58Digits(_)
\* "".join(reversed(enc)) of the loop `while num > 0`
B58Digits(bs) ==
    IF IsZeroNum(bs) THEN <<>>
    ELSE LET dm == DivMod58(bs, 1, 0, <<>>)
         IN Append(B58Digits(dm.quot), B58Alphabet[dm.rem + 1])

\* _b58encode
B58Encode(bs) ==
    IF IsZeroNum(bs)
    THEN [i \in 1..NPad(bs) |-> B58Alphabet[1]]
    ELSE [i \in 1..NPad(bs) |-> B58Alphabet[1]] \o B58Digits(bs)

\* the alphabet of base64.b64decode
B64Alphabet ==
    <<"A", "B", "C", "D", "E", "F", "G", "H", "I", "J", "K", "L", "M", "N", "O", "P",
      "Q", "R", "S", "T", "U", "V", "W", "X", "Y", "Z", "a", "b", "c", "d", "e", "f",
      "g", "h", "i", "j", "k", "l", "m", "n", "o", "p", "q", "r", "s", "t", "u", "v",
      "w", "x", "y", "z", "0", "1", "2", "3", "4", "5", "6", "7", "8", "9", "+", "/">>

\* the 6 bits of a character, 64 for a character outside the alphabet
B64Index(c) ==
    IF \E i \in 1..64 : B64Alphabet[i] = c
    THEN (CHOOSE i \in 1..64 : B64Alphabet[i] = c) - 1
    ELSE 64

RECURSIVE A2bBase64(_, _, _)
\* base64.b64decode(s) with its defaults on the ASCII string s, from
\* character i on: characters outside the alphabet are discarded, padding
\* that completes a quad ends the input, an incomplete quad at the end
\* raises binascii.Error
A2bBase64(s, i, st) ==
    IF i > Len(s)
    THEN IF st.quad_pos # 0 THEN Raised ELSE B(st.out)
    ELSE LET c == B64Index(s[i])
         IN IF s[i] = "="
            THEN IF st.quad_pos >= 2 /\ st.quad_pos + st.pads + 1 >= 4
                 THEN B(st.out)
                 ELSE A2bBase64(s, i + 1,
                        [st EXCEPT !.pads = IF st.quad_pos >= 2 THEN @ + 1 ELSE @])
            ELSE IF c = 64 THEN A2bBase64(s, i + 1, st)
            ELSE A2bBase64(s, i + 1,
                   CASE st.quad_pos = 0 ->
                          [st EXCEPT !.quad_pos = 1, !.leftchar = c, !.pads = 0]
                     [] st.quad_pos = 1 ->
                          [st EXCEPT !.quad_pos = 2, !.leftchar = c % 16, !.pads = 0,
                                     !.out = Append(@, st.leftchar * 4 + c \div 16)]
                     [] st.quad_pos = 2 ->
                          [st EXCEPT !.quad_pos = 3, !.leftchar = c % 4, !.pads = 0,
                                     !.out = Append(@, st.leftchar * 16 + c \div 4)]
                     [] OTHER ->
                          [st EXCEPT !.quad_pos = 0, !.leftchar = 0, !.pads = 0,
                                     !.out = Append(@, st.leftchar * 64 + c)])

B64Decode(s) == A2bBase64(s, 1, [quad_pos |-> 0, out |-> <<>>, pads |-> 0, leftchar |-> 0])

\* _decode_account_data: bytes, Null for None, or Raised
DecodeAccountData(raw) ==
    IF raw = Null THEN Null
    ELSE IF IsList(raw) /\ Len(raw.v) >= 1 /\ IsStr(raw.v[1]) THEN B64Decode(raw.v[1].v)
    ELSE IF raw.t = "bytes" THEN raw
    ELSE Null

\* raw[k] of the slice raw[i : i + 4], 0 where the slice has ended
ByteAt(raw, k) == IF k + 1 <= Len(raw) THEN raw[k + 1] ELSE 0

\* int.from_bytes(raw[i : i + 4], "little")
U32LE(raw, i) ==
    ByteAt(raw, i) + 256 * ByteAt(raw, i + 1) + 65536 * ByteAt(raw, i + 2)
        + 16777216 * ByteAt(raw, i + 3)

\* raw[start : start + 32]
Pubkey(raw, start) == [k \in 1..32 |-> raw[start + k]]

\* the pubkeys read at offset i, <<>> when offset i is not plausible
PubkeysAt(raw, i) ==
    LET length == U32LE(raw, i)
        Lmax == (Len(raw) \div 32) + 1
    IN IF length <= 0 \/ length > Lmax THEN <<>>
       ELSE IF i + 4 + length * 32 <= Len(raw)
       THEN [j \in 1..length |-> Pubkey(raw, i + 4 + (j - 1) * 32)]
       ELSE <<>>

\* the offsets i of the loop `for i in range(0, max(1, len(raw) - 4))` at
\* which a candidate is appended
PlausibleOffsets(raw) ==
    {i \in 0..((IF Len(raw) - 4 > 1 THEN Len(raw) - 4 ELSE 1) - 1) : PubkeysAt(raw, i) # <<>>}

RECURSIVE CandidatesAt(_, _)
\* the candidates at the offsets I, by rising offset
CandidatesAt(raw, I) ==
    IF I = {} THEN <<>>
    ELSE LET i == CHOOSE m \in I : \A o \in I : m <= o
         IN <<PubkeysAt(raw, i)>> \o CandidatesAt(raw, I \ {i})

\* _extract_pubkey_vec_candidates; raw: a bytes value, or Null for None
ExtractPubkeyVecCandidates(raw) ==
    IF raw = Null \/ raw.v = <<>> THEN <<>> ELSE CandidatesAt(raw.v, PlausibleOffsets(raw.v))

RECURSIVE LongestFirstFrom(_, _)
\* the candidates of length n, then those of the lengths below n, each
\* group in the order it had
LongestFirstFrom(candidates, n) ==
    IF n = 0 THEN <<>>
    ELSE SelectSeq(candidates, LAMBDA c : Len(c) = n) \o LongestFirstFrom(candidates, n - 1)

CandidatesInScanOrder(candidates) == candidates

\* candidates.sort(key=lambda c: len(c), reverse=True): a stable sort
SortLongestFirst(candidates) ==
    LongestFirstFrom(candidates,
        IF candidates = <<>> THEN 0
        ELSE CHOOSE n \in {Len(candidates[i]) : i \in 1..Len(candidates)} :
                \A i \in 1..Len(candidates) : Len(candidates[i]) <= n)

\* pubkey_strs.index(node_addr), 0-based; -1: ValueError
IndexOf(pubkey_strs, addr) ==
    IF \E j \in 1..Len(pubkey_strs) : pubkey_strs[j] = addr
    THEN (CHOOSE j \in 1..Len(pubkey_strs) :
            /\ pubkey_strs[j] = addr
            /\ \A h \in 1..(j - 1) : pubkey_strs[h] # addr) - 1
    ELSE -1

RECURSIVE FirstContaining(_, _, _)
\* the loop `for pubkeys in candidates` from candidate n on
FirstContaining(candidates, n, addr) ==
    IF n > Len(candidates) THEN Null
    ELSE LET pubkey_strs == [j \in 1..Len(candidates[n]) |-> B58Encode(candidates[n][j])]
             idx == IndexOf(pubkey_strs, addr)
         IN IF idx >= 0 THEN [position |-> idx + 1, total |-> Len(pubkey_strs)]
            ELSE FirstContaining(candidates, n + 1, addr)

GetQueuePositionZeroBased(raw, addr) ==
    LET found == FirstContaining(SortLongestFirst(ExtractPubkeyVecCandidates(raw)), 1, addr)
    IN IF found = Null THEN Null ELSE [found EXCEPT !.position = @ - 1]

\* _get_queue_position_from_market_raw: [position, total], or Null for None
GetQueuePositionFromMarketRaw(raw, addr) ==
    LET candidates == ExtractPubkeyVecCandidates(raw)
    IN IF candidates = <<>> THEN Null
       ELSE FirstContaining(SortLongestFirst(candidates), 1, addr)

(***************************************************************************)
(* The helpers applied to one account: the account data is decoded, then   *)
(* the address is looked up in what was decoded.                           *)
(***************************************************************************)
DecodeAccount ==
    /\ queue_pc = "raw"
    /\ market_raw' = DecodeAccountData(account_raw)
    /\ queue_pc' = IF DecodeAccountData(account_raw) = Raised THEN "raised" ELSE "decoded"
    /\ UNCHANGED <<account_raw, node_addr_b58, queue_position, coordVars, clock, pc, infoVars,
                   specsVars, marketsVars, resolveVars, jobsVars, outcome, logVars, otherVars>>

LookupPosition ==
    /\ queue_pc = "decoded"
    /\ queue_position' = GetQueuePositionFromMarketRaw(market_raw, node_addr_b58)
    /\ queue_pc' = "looked"
    /\ UNCHANGED <<account_raw, market_raw, node_addr_b58, coordVars, clock, pc, infoVars,
                   specsVars, marketsVars, resolveVars, jobsVars, outcome, logVars, otherVars>>

(***************************************************************************)
(* Accounts and addresses the helpers are applied to.  A queue of a market *)
(* account is a u32 little-endian length followed by that many pubkeys of  *)
(* 32 bytes.                                                               *)
(***************************************************************************)
\* three pubkeys: KeyT, KeyX that starts with the bytes of the length 1,
\* KeyZ that starts with two zero bytes
KeyT == [i \in 1..32 |-> (i * 7) % 128]
KeyX == [i \in 1..32 |-> IF i = 1 THEN 1 ELSE IF i <= 4 THEN 0 ELSE (i * 5) % 128]
KeyZ == [i \in 1..32 |-> IF i <= 2 THEN 0 ELSE (i * 3) % 128]
Keys == {KeyT, KeyX, KeyZ}

\* the base-58 addresses of KeyT and KeyZ, and that of a key in no account
NodeT ==
    <<"U", "Y", "J", "t", "j", "u", "S", "5", "i", "3", "6", "u", "X", "y", "v", "7",
      "4", "V", "6", "a", "J", "D", "H", "b", "6", "C", "g", "N", "N", "i", "L", "c",
      "R", "P", "B", "t", "q", "x", "7", "v", "t", "t", "X">>
NodeZ ==
    <<"1", "1", "2", "p", "9", "F", "D", "8", "u", "H", "E", "X", "q", "3", "f", "D",
      "3", "X", "u", "y", "i", "L", "t", "d", "h", "u", "9", "F", "b", "7", "f", "U",
      "N", "o", "v", "Y", "a", "p", "A", "W", "z", "r", "B">>
NodeAbsent ==
    <<"k", "H", "4", "G", "2", "8", "p", "h", "Y", "L", "s", "i", "8", "F", "j", "Q",
      "W", "J", "F", "M", "F", "3", "u", "x", "g", "t", "3", "g", "g", "8", "i", "K",
      "P", "x", "M", "X", "Y", "D", "n", "a", "t", "m", "5">>
NodeAddrs == {NodeT, NodeZ, NodeAbsent}

RECURSIVE Concat(_)
Concat(q) == IF q = <<>> THEN <<>> ELSE Head(q) \o Concat(Tail(q))

\* a queue as it lies in an account
Vec(q) == <<Len(q) % 256, Len(q) \div 256, 0, 0>> \o Concat(q)

\* the longest queue in an account
MaxQueueLen == 3

KeyLists == UNION {[1..n -> Keys] : n \in 1..MaxQueueLen}

\* 8 bytes in front of a queue
Header == <<9, 8, 7, 6, 5, 4, 3, 2>>

Blobs ==
    {Header \o Vec(q) : q \in KeyLists}
    \cup {Vec(<<k>>) \o Vec(q) : k \in Keys, q \in [1..2 -> Keys]}
    \cup {<<>>, <<1>>, <<1, 0, 0, 0>>, <<3, 0, 0, 0>> \o KeyX \o KeyZ, KeyT,
          Vec(<<KeyX, KeyZ, KeyX>>)}

AccountRaws ==
    {B(b) : b \in Blobs}
    \cup {Null, L(<<>>), L(<<N(1), S(<<"b", "a", "s", "e", "6", "4">>)>>), N(5),
          S(<<"A", "Q", "I", "D">>), D(EmptyDict)}
    \cup {L(<<S(s), S(<<"b", "a", "s", "e", "6", "4">>)>>) :
            s \in {<<>>, <<"A", "Q", "I", "D">>, <<"A", "Q", "I", "=">>, <<"A", "Q", "=", "=">>,
                   <<"A", "Q", "=", "I", "D">>, <<"A", "Q", "I", "D", "!">>,
                   <<"A", "Q", "I", "=", "D">>, <<"a", "b", "c">>, <<"A">>,
                   <<"A", "Q", "=">>}}

InitQueue ==
    /\ InitCoordinator
    /\ account_raw \in AccountRaws
    /\ market_raw = Null
    /\ node_addr_b58 \in NodeAddrs
    /\ queue_position = Null
    /\ queue_pc = "raw"

NextQueue ==
    \/ DecodeAccount
    \/ LookupPosition

SpecQueue == InitQueue /\ [][NextQueue]_vars

(***************************************************************************)
(* Properties of the queue-position helpers.                               *)
(***************************************************************************)
\* the bytes that were looked through (none for None)
LookedThrough == IF market_raw = Null THEN <<>> ELSE market_raw.v

\* at offset i (from 0) of raw lies a length n >= 1 followed by n entries
\* of 32 bytes that fit in raw
IsCandidate(raw, i, n) ==
    /\ n >= 1
    /\ i + 4 + 32 * n <= Len(raw)
    /\ U32LE(raw, i) = n

\* the candidate list of n entries at offset i contains the address
ContainsAddr(raw, i, n, addr) ==
    \E j \in 1..n : B58Encode(Pubkey(raw, i + 4 + 32 * (j - 1))) = addr

\* C22: the lookup returns None or (position, total) with
\* 1 <= position <= total, total the length of a candidate list found in
\* the blob whose entry position-1 (from 0) base-58-encodes to the target;
\* it returns None exactly when no candidate list contains the target.
C22_PositionInCandidateList ==
    queue_pc = "looked" =>
        LET raw == LookedThrough
        IN IF queue_position = Null
           THEN \A i \in 0..(Len(raw) - 1), n \in 1..(Len(raw) \div 32) :
                    IsCandidate(raw, i, n) => ~ ContainsAddr(raw, i, n, node_addr_b58)
           ELSE /\ 1 <= queue_position.position
                /\ queue_position.position <= queue_position.total
                /\ \E i \in 0..(Len(raw) - 1) :
                    /\ IsCandidate(raw, i, queue_position.total)
                    /\ B58Encode(Pubkey(raw, i + 4 + 32 * (queue_position.position - 1)))
                            = node_addr_b58

\* the address of KeyT was looked up in an account whose queue is
\* KeyX, KeyT, KeyZ: it is second of three
C22_Witness ==
    /\ queue_pc = "looked"
    /\ market_raw = B(Header \o Vec(<<KeyX, KeyT, KeyZ>>))
    /\ node_addr_b58 = NodeT
    /\ queue_position = [position |-> 2, total |-> 3]

\* C28: the lookup prefers the longest candidate list: no candidate list of
\* the blob that contains the target is longer than the returned total, so
\* a shorter list is used only when no longer one contains the target.
C28_LongestListPreferred ==
    (queue_pc = "looked" /\ queue_position # Null) =>
        LET raw == LookedThrough
        IN /\ \A i \in 0..(Len(raw) - 1), n \in 1..(Len(raw) \div 32) :
                (IsCandidate(raw, i, n) /\ ContainsAddr(raw, i, n, node_addr_b58))
                    => n <= queue_position.total
           /\ \E i \in 0..(Len(raw) - 1) :
                /\ IsCandidate(raw, i, queue_position.total)
                /\ ContainsAddr(raw, i, queue_position.total, node_addr_b58)

\* the address of KeyT was looked up in an account that holds the queue
\* KeyT and, behind it, the queue KeyX, KeyT: the total is 2
C28_Witness ==
    /\ queue_pc = "looked"
    /\ market_raw = B(Vec(<<KeyT>>) \o Vec(<<KeyX, KeyT>>))
    /\ node_addr_b58 = NodeT
    /\ queue_position = [position |-> 2, total |-> 2]

\* C29: the queue-position path never raises: decoding the account data
\* returns bytes or None for every shape of input, and the lookup returns
\* None for an empty blob and for account data that did not decode.
C29_QueuePathNeverRaises ==
    /\ queue_pc # "raised"
    /\ queue_pc \in {"decoded", "looked"} => (market_raw = Null \/ market_raw.t = "bytes")
    /\ (queue_pc = "looked" /\ LookedThrough = <<>>) => queue_position = Null

(***************************************************************************)
(* The status sensor and the device triggers (sensor.py 97-109,            *)
(* device_trigger.py 19-97).                                               *)
(***************************************************************************)
\* NosanaNodeStatusSensor.state on the coordinator's data d
SensorState(d) ==
    IF d = Null THEN "None"
    ELSE IF Get(d.v, "state") = S("QUEUED") THEN "Queued" ELSE "Running"

\* TRIGGER_TYPES, and to_map: the sensor state a trigger of a type waits for
TriggerTypes == {"running", "queued", "offline"}
ToState(trig_type) ==
    CASE trig_type = "running" -> "Running"
      [] trig_type = "queued" -> "Queued"
      [] trig_type = "offline" -> "Offline"

\* C23: the status sensor reports the normalized status of the latest
\* snapshot, so that whenever the snapshot's status is the state a device
\* trigger waits for, the sensor is in that state.
C23_SensorReportsNormalizedStatus ==
    data # Null =>
        /\ SensorState(data) = PublishedStatus
        /\ \A trig_type \in TriggerTypes :
              PublishedStatus = ToState(trig_type) => SensorState(data) = ToState(trig_type)

(***************************************************************************)
(* The market address: specs and info that name a market address under     *)
(* either key, under both, with an empty value, or not at all; the market  *)
(* list has a record for each address and one with an empty address.       *)
(***************************************************************************)
AddressInfoResps ==
    {Raise,
     Ok(D([state |-> S("running")])),
     Ok(D([state |-> S("running"), marketAddress |-> AddrB])),
     Ok(D([market_address |-> AddrB, state |-> S("running")])),
     Ok(D([market_address |-> S(""), state |-> S("running")])),
     Ok(D([market_address |-> AddrB, state |-> S("running"), marketAddress |-> S("")]))}

AddressSpecsResps ==
    {Raise,
     Ok(D(EmptyDict)),
     Ok(L(<<>>)),
     Ok(D([marketAddress |-> AddrA])),
     Ok(D([market_address |-> AddrA])),
     Ok(D([market_address |-> AddrA, marketAddress |-> S("")])),
     Ok(D([marketAddress |-> S("")])),
     Ok(D([market_address |-> AddrB, marketAddress |-> AddrA]))}

NextAddress ==
    \/ StartCycle
    \/ FetchInfo(AddressInfoResps)
    \/ FetchSpecs(AddressSpecsResps)
    \/ FetchMarkets({Ok(L(<<D([address |-> S(""), name |-> S("Nameless")]),
                             D([name |-> S("Unaddressed")]),
                             MarketA,
                             D([address |-> AddrB, name |-> S("GPU-B")])>>))})
    \/ Resolve

SpecAddress == Init /\ [][NextAddress]_vars

\* the address a source supplies: the value under marketAddress, else the
\* one under market_address, when it is set; Null when the source is no
\* dict or has neither
Supplied(src) ==
    IF ~ IsDict(src) THEN Null
    ELSE IF Truthy(Get(src.v, "marketAddress")) THEN Get(src.v, "marketAddress")
    ELSE IF Truthy(Get(src.v, "market_address")) THEN Get(src.v, "market_address")
    ELSE Null

\* no record of the market list was matched: the display fields are null
NothingMatched == \A f \in DOMAIN DisplayKeys : Get(market, f) = Null

\* C24 as stated: the market address is the one specs supplies, else the
\* one info supplies; when neither supplies one, the market record is null
\* in every field, the address included, and no record is matched.
C24_AddressFromSpecsElseInfo ==
    pc = "load" =>
        IF Supplied(specs) # Null
        THEN market_address = Supplied(specs) /\ market.address = Supplied(specs)
        ELSE IF Supplied(D(info)) # Null
        THEN market_address = Supplied(D(info)) /\ market.address = Supplied(D(info))
        ELSE market.address = Null /\ NothingMatched

\* C24, amended: the market address is the one specs supplies, else the one
\* info supplies; when neither supplies one, the address of the market
\* record is null or the empty value info carries under market_address or
\* marketAddress, every other field is null and no record is matched.
C24_AddressFromSpecsElseInfoOrEmpty ==
    pc = "load" =>
        IF Supplied(specs) # Null
        THEN market_address = Supplied(specs) /\ market.address = Supplied(specs)
        ELSE IF Supplied(D(info)) # Null
        THEN market_address = Supplied(D(info)) /\ market.address = Supplied(D(info))
        ELSE /\ market.address = market_address
             /\ market_address \in {Null, Get(info, "market_address"), Get(info, "marketAddress")}
             /\ ~ Truthy(market_address)
             /\ NothingMatched

\* specs name no address and info carries an empty one: the record's
\* address is the empty string and nothing is matched, although the market
\* list has a record with an empty address
C24_Witness ==
    /\ pc = "load"
    /\ Supplied(specs) = Null
    /\ Supplied(D(info)) = Null
    /\ market.address = S("")
    /\ NothingMatched
    /\ IsMatch(markets.v[1], S(""))

(***************************************************************************)
(* One fetched job against the ledger a refresh has loaded.                *)
(***************************************************************************)
\* the jobs of the job lists that are JSON objects
LedgerJobs == {x \in UNION {{q[i] : i \in 1..Len(q)} : q \in LedgerJobLists} : IsDict(x)}

\* C25: when the id of a fetched job (one with a start time) is in the
\* ledger and the job is finalized (timeEnd > 0) while the stored record is
\* not, or its end time differs from that of the finalized stored record,
\* the record's timeEnd, runtime_seconds, earned_usd, finalized and
\* last_seen become those computed from the fetched job, no record is added
\* or touched besides, and the totals change by the new contribution of the
\* job in place of the old one.
C25_FinalizationRewritesRecord ==
    pc = "jobs" =>
        \A job \in LedgerJobs :
            LET k == LedgerIndex(jobs_store, StrOf(Get(job.v, "id")))
                prev == jobs_store[k].rec
                jobEnd == IntOf(Get(job.v, "timeEnd"))
                c == Compute(job.v)
                after == UpdateLedger(jobs_store, <<job>>, now).js
                countedSeconds == IF prev.timeEnd > 0 THEN prev.runtime_seconds ELSE 0
                countedUsd == IF prev.timeEnd > 0 THEN prev.earned_usd ELSE 0
            IN (/\ k # 0
                /\ IntOf(Get(job.v, "timeStart")) > 0
                /\ jobEnd > 0
                /\ (~ prev.finalized \/ prev.timeEnd # jobEnd))
               => /\ Len(after) = Len(jobs_store)
                  /\ \A i \in 1..Len(after) : i # k => after[i] = jobs_store[i]
                  /\ after[k].jid = jobs_store[k].jid
                  /\ after[k].rec.timeEnd = jobEnd
                  /\ after[k].rec.runtime_seconds = c.runtime
                  /\ after[k].rec.earned_usd = c.earned
                  /\ after[k].rec.finalized
                  /\ after[k].rec.last_seen = now
                  /\ Totals(after).seconds_total.v =
                        Totals(jobs_store).seconds_total.v - countedSeconds + c.runtime
                  /\ Totals(after).usd_total.v =
                        Totals(jobs_store).usd_total.v - countedUsd + c.earned
                  /\ Totals(after).jobs_tracked = Totals(jobs_store).jobs_tracked

\* a refresh one period later has taken in the job with its end time
\* corrected from 200 to 300: the record counts 200 seconds and 0.2
C25_Witness ==
    /\ pc = "save"
    /\ resp_jobs = Ok(D([jobs |-> L(<<JobEndCorrected>>)]))
    /\ Len(store) = 1
    /\ store[1].rec.timeEnd = 200
    /\ store[1].rec.last_seen = 0
    /\ Len(jobs_store) = 1
    /\ jobs_store[1].rec.timeEnd = 300
    /\ jobs_store[1].rec.runtime_seconds = 200
    /\ jobs_store[1].rec.earned_usd = 200000
    /\ jobs_store[1].rec.finalized
    /\ jobs_store[1].rec.last_seen = UpdateInterval

(***************************************************************************)
(* Benchmark backfill: one job that runs, ends, is reported again with a   *)
(* benchmark result or with another one, or gets its end time corrected.   *)
(***************************************************************************)
JobDoneBench ==
    D([id |-> N(1), timeStart |-> N(100), timeEnd |-> N(200),
       usdRewardPerHour |-> N(3600000),
       jobResult |-> D([opStates |-> L(<<
           D([results |-> D([results_llm_benchmark |-> L(<<S("bench-llama")>>)]),
              status |-> S("success"), operationId |-> S("llm-benchmark")])>>)])])
JobDoneBenchOther ==
    D([id |-> N(1), timeStart |-> N(100), timeEnd |-> N(200),
       usdRewardPerHour |-> N(3600000),
       jobResult |-> D([opStates |-> L(<<
           D([results |-> D([results_llm_benchmark |-> L(<<S("bench-nested-id")>>)]),
              status |-> S("success"), operationId |-> S("llm-benchmark")])>>)])])

BackfillJobs == {JobRunning, JobDone, JobDoneBench, JobDoneBenchOther, JobEndCorrected}

NextBackfill ==
    \/ Tick(LedgerTickCycles, LedgerMaxTime)
    \/ StartCycle
    \/ FetchInfo({Ok(D([state |-> S("QUEUED")])), Ok(D([state |-> S("running")]))})
    \/ FetchSpecs({Raise})
    \/ FetchMarkets({Raise})
    \/ Resolve
    \/ LoadForRefresh
    \/ Recompute
    \/ FetchJobs({Ok(D([jobs |-> L(<<job>>)])) : job \in BackfillJobs})
    \/ SaveStore
    \/ Return
    \/ Timeout
    \/ EndCycle

SpecBackfill == Init /\ [][NextBackfill]_vars

C27_PersistenceFailureNotFatal ==
    [][/\ (pc = "load" /\ pc' # "load") =>
            \/ pc' = "done" /\ outcome' = UpdateFailed("TimeoutError")
            \/ /\ pc' \in {"jobs", "return"}
               /\ jobs_store' \in {store, <<>>}
               /\ outcome' = NoOutcome
       /\ (pc = "save" /\ pc' # "save") =>
            \/ pc' = "done" /\ outcome' = UpdateFailed("TimeoutError")
            \/ /\ pc' = "return"
               /\ store' \in {store, jobs_store}
               /\ earnings' = EarningsOfRefresh(jobs_store, latest_bench)
               /\ outcome' = NoOutcome
       /\ (pc = "return" /\ pc' # "return") =>
            /\ pc' = "done"
            /\ outcome' = Snapshot
            /\ {"usd_total", "seconds_total", "jobs_tracked"} \subseteq DOMAIN earnings
            /\ data'.v["earnings"] = D(earnings)]_vars

\* a cycle whose read of the persisted ledger (one record) failed and whose
\* jobs request failed has returned a snapshot that tracks no job
C27_Witness ==
    /\ pc = "done"
    /\ outcome = Snapshot
    /\ should_fetch_jobs
    /\ resp_jobs = Raise
    /\ Len(store) = 1
    /\ jobs_store = <<>>
    /\ data.v["earnings"].v["jobs_tracked"] = N(0)

\* C30: every record of a ledger built from the empty ledger has
\* timeStart > 0, is marked finalized exactly when its timeEnd > 0, and has
\* runtime_seconds = 0 and earned_usd = 0 when it is not finalized.
C30_LedgerRecordsWellFormed ==
    \A js \in {jobs_store, store} :
        \A i \in 1..Len(js) :
            /\ js[i].rec.timeStart > 0
            /\ js[i].rec.finalized <=> js[i].rec.timeEnd > 0
            /\ ~ js[i].rec.finalized =>
                  (js[i].rec.runtime_seconds = 0 /\ js[i].rec.earned_usd = 0)

\* a refresh has taken in a running job and, behind it in a later cycle, a
\* job with no start time: the ledger holds the running job alone
C30_Witness ==
    /\ pc = "return"
    /\ resp_jobs = Ok(D([jobs |-> L(<<JobNoStart>>)]))
    /\ Len(jobs_store) = 1
    /\ jobs_store[1].jid = "1"
    /\ ~ jobs_store[1].rec.finalized
    /\ jobs_store[1].rec.timeEnd = 0
    /\ jobs_store[1].rec.runtime_seconds = 0


(***************************************************************************)
(* Published snapshots and the jobs refresh.                               *)
(***************************************************************************)
\* C31: a cycle about to publish a snapshot whose normalized status differs
\* from the one of the snapshot published before it (cycles that failed in
\* between published nothing) has gone through the jobs refresh: it has
\* sent its request to the jobs endpoint.
C31_PublishedTransitionRefreshes ==
    (pc = "return" /\ data # Null /\ PublishedStatus # normalized_status) =>
        "jobs" \in requests

\* C32: the jobs endpoint is contacted at most once in a cycle, and a cycle
\* contacts it only if no completed cycle has gone through the jobs refresh
\* yet (whether its request was answered or not), or the normalized status
\* differs from the one of the cycle before, or the latest completed cycle
\* that went through the refresh is at least 900 seconds back.
C32_JobsRequestsBounded ==
    [][(pc # "jobs" /\ pc' = "jobs") =>
        /\ "jobs" \notin requests
        /\ \/ jobs_attempted_at = NoTime
           \/ prev_status # normalized_status
           \/ now - jobs_attempted_at >= JobsTtlSeconds]_vars

\* a cycle later than one whose jobs request failed, with the same status
\* and inside the 900 seconds, about to return without a jobs request
C32_Witness ==
    /\ pc = "return"
    /\ "jobs" \notin requests
    /\ store = <<>>
    /\ jobs_attempted_at # NoTime
    /\ prev_status = normalized_status
    /\ now - jobs_attempted_at > 0
    /\ now - jobs_attempted_at < JobsTtlSeconds

====
